---- MODULE Spec2Model ----
(***************************************************************************)
(* Transmit path of the sfc network driver (drivers/net/ethernet/sfc/tx.c). *)
(*                                                                         *)
(* Queues 0 and 1 are the two partner TX queues that share one stack       *)
(* queue (core_txq); queue 2 is the XDP TX queue bound to the calling CPU. *)
(* efx_enqueue_skb runs under netif_tx_lock, so one submission is in       *)
(* progress at a time; the completion path (efx_xmit_done) runs in another *)
(* context and interleaves with it at every access to shared state.        *)
(***************************************************************************)
EXTENDS Integers, Sequences, FiniteSets, TLC

(* ------------------------------ bounds --------------------------------- *)

\* efx->txq_entries: descriptors per ring
txq_entries == 4
\* the most descriptors one packet of the stack needs (efx_tx_max_skb_descs)
MaxSkbDescs == 2
\* the stack submits packets while at most this many descriptors have been
\* inserted since the start, both queues together
MaxInsert == 3
\* the fallback counter stops the fallback scenario at this value
MaxStat == 1
\* gso_segs of an offload packet
NSegs == 2
\* the most frames of one efx_xdp_tx_buffers call
MaxBatch == 5
\* XDP frames handed to the driver in one behaviour
MaxFrames == 6
\* efx->n_tx_channels is drawn from 1 .. MaxChannels
MaxChannels == 2
\* channels of the NIC that are not TX channels of the stack
ExtraChannels == 1
\* a packet written to the PIO buffer has at most MaxFrags fragments
MaxFrags == 2
\* magnitudes of a rumble effect are drawn from 0 .. MaxMagnitude
MaxMagnitude == 2
\* the vibrator is switched on while the clock has been prepared fewer than
\* MaxPrepare times
MaxPrepare == 3

(* --------------------------- program constants -------------------------- *)

efx_piobuf_size == 256
EFX_TX_CB_SIZE == 128
NETDEV_TX_OK == 0
EINVAL == 22
EIO == 5
ENOMEM == 12
EOPNOTSUPP == 95
EFX_TXQ_TYPES == 4
EFX_TXQ_TYPE_OFFLOAD == 1
EFX_TXQ_TYPE_HIGHPRI == 2
EFX_MAX_TX_TC == 2
\* sizeof(copy_buf->buf): the smallest cache line the kernel is built for
L1_CACHE_BYTES == 16

\* efx->txq_stop_thresh = efx->txq_entries - efx_tx_max_skb_descs(efx)
txq_stop_thresh == txq_entries - MaxSkbDescs
\* efx->txq_wake_thresh = efx->txq_stop_thresh / 2
txq_wake_thresh == txq_stop_thresh \div 2

TxQ == {0, 1}
XdpQ == 2
AllQ == TxQ \cup {XdpQ}

\* skb->len values: at most the copy threshold, at most the PIO threshold, larger
Lens == {64, 200, 1500}

VARIABLES
  insert_count,        \* tx_queue->insert_count, per queue
  read_count,          \* tx_queue->read_count (written by the completion path)
  old_read_count,      \* tx_queue->old_read_count (the submitter's snapshot)
  write_count,         \* tx_queue->write_count: descriptors pushed to the NIC
  buffer,              \* tx_queue->buffer[]: the descriptor slots
  xmit_more_available, \* tx_queue->xmit_more_available
  stats,               \* per-queue counters
  stopped,             \* netif_tx_queue_stopped(core_txq) of the pair
  loopback_selftest,   \* efx->loopback_selftest != NULL
  piobuf,              \* tx_queue->piobuf != NULL
  desc_limit,          \* the most descriptors a packet of the stack needs
  faults,              \* DMA mappings and allocations may fail
  pc,                  \* position of the submitter
  cur,                 \* arguments and locals of the efx_enqueue_skb call
  segs_left,           \* segments still to walk in efx_tx_tso_fallback
  placed,              \* placement stages the last efx_enqueue_skb call ran
  ret,                 \* value the last call returned
  skb_live,            \* packets allocated and not released
  low_seen,            \* fill was below the threshold when read_count was read
  xdp_tx_queue_count,  \* efx->xdp_tx_queue_count
  xdp_tx_queues,       \* efx->xdp_tx_queues[cpu]: the queue bound to a CPU
  xdp_frames,          \* per XDP frame: times returned, times completed
  xdp_call,            \* arguments and result of the last efx_xdp_tx_buffers
  n_tx_channels,       \* efx->n_tx_channels
  num_tc,              \* net_dev->num_tc: the advertised class count
  real_num_tx_queues,  \* net_dev->real_num_tx_queues
  tc_to_txq,           \* net_dev->tc_to_txq[tc]: offset and count
  txq_buffer,          \* per driver queue: tx_queue->buffer != NULL
  txq_initialised,     \* per driver queue: tx_queue->initialised
  core_txq,            \* per driver queue: stack queue of tx_queue->core_txq
  tc_pc,               \* position of efx_setup_tc
  tc_i,                \* efx_setup_tc: the next queue of its loop
  tc_call,             \* arguments and result of the last efx_setup_tc
  xmit_sel,            \* the last queue lookup of efx_hard_start_xmit
  pio_skb,             \* efx_enqueue_skb_pio: lengths of the head and fragments
  pio_st,              \* efx_enqueue_skb_pio: piobuf, copy_buf, writes made
  pio_i,               \* efx_skb_copy_bits_to_pio: the next fragment
  pio_pc,              \* position of efx_enqueue_skb_pio
  vibrator,            \* struct clk_vibrator and the hardware it drives
  work_pending,        \* vibrator->worker is queued
  worker_pc,           \* position of clk_vibrator_worker
  close_pc,            \* position of clk_vibrator_close
  pm_pc,               \* position of clk_vibrator_suspend / _resume
  pm_call              \* what the last clk_vibrator_suspend call found

\* what the submission of packets leaves alone
xdp_vars == <<xdp_tx_queue_count, xdp_tx_queues, xdp_frames, xdp_call>>

\* state of queue selection and traffic-class reconfiguration
tc_vars == <<n_tx_channels, num_tc, real_num_tx_queues, tc_to_txq, txq_buffer,
             txq_initialised, core_txq, tc_pc, tc_i, tc_call, xmit_sel>>

\* state of the copy to the PIO buffer
pio_vars == <<pio_skb, pio_st, pio_i, pio_pc>>

\* state of the clock vibrator
vib_vars == <<vibrator, work_pending, worker_pc, close_pc, pm_pc, pm_call>>

vars == <<vib_vars, pio_vars, tc_vars, xdp_vars, insert_count, read_count, old_read_count, write_count, buffer,
          xmit_more_available, stats, stopped, loopback_selftest, piobuf,
          desc_limit, faults, pc, cur, segs_left, placed, ret, skb_live,
          low_seen>>

(* ------------------------------ helpers -------------------------------- *)

Max(a, b) == IF a >= b THEN a ELSE b
Min(a, b) == IF a <= b THEN a ELSE b

\* a descriptor slot nobody owns: flags 0, no mapping to undo, no packet
CleanSlot == [flags |-> {}, unmap_len |-> 0, skb |-> FALSE, xdpf |-> 0]

efx_tx_queue_partner(q) == 1 - q

\* efx_tx_queue_get_insert_index: insert_count & ptr_mask
InsertIndex(ic) == ic % txq_entries

\* the ring `buf` with slots ic .. ic+n-1 replaced by slot(0) .. slot(n-1)
PutSlots(buf, ic, n, slot(_)) ==
  [i \in 0..(txq_entries - 1) |->
     IF \E j \in 0..(n - 1) : InsertIndex(ic + j) = i
       THEN slot(CHOOSE j \in 0..(n - 1) :
                   /\ InsertIndex(ic + j) = i
                   /\ \A k \in 0..(n - 1) : InsertIndex(ic + k) = i => k <= j)
       ELSE buf[i]]

\* the pair's fill level taken as the smaller of the two queues' levels
PairFillOld_Min(ic, orc, q) ==
  Min(ic[q] - orc[q],
      ic[efx_tx_queue_partner(q)] - orc[efx_tx_queue_partner(q)])

\* fill_level = max(txq1->insert_count - txq1->old_read_count,
\*                  txq2->insert_count - txq2->old_read_count)
PairFillOld(ic, orc, q) ==
  Max(ic[q] - orc[q],
      ic[efx_tx_queue_partner(q)] - orc[efx_tx_queue_partner(q)])

(* ------------------- placement stages (pure operators) ------------------ *)
(* Each takes the ring of the queue and its insert_count and yields the    *)
(* ring and insert_count it leaves, with its return code rc.               *)

\* efx_enqueue_skb_copy: copy the packet into the slot's copy buffer
\* (cb_ok: efx_tx_get_copy_buffer found or allocated the staging page)
efx_enqueue_skb_copy(buf, ic, cb_ok) ==
  IF ~cb_ok
    THEN [buf |-> buf, ic |-> ic, rc |-> -ENOMEM]
    ELSE [buf |-> [buf EXCEPT ![InsertIndex(ic)] =
                     [@ EXCEPT !.flags = {"SKB"}, !.skb = TRUE]],
          ic |-> ic + 1, rc |-> 0]

\* efx_enqueue_skb_pio: write the packet to the PIO buffer, one option descriptor
efx_enqueue_skb_pio(buf, ic) ==
  [buf |-> [buf EXCEPT ![InsertIndex(ic)] =
              [@ EXCEPT !.flags = {"SKB", "OPTION"}, !.skb = TRUE]],
   ic |-> ic + 1, rc |-> 0]

\* efx_tx_map_data: one descriptor for the head and one per fragment; the
\* mapping of piece fail_at (0 = head) fails; the last descriptor holds the skb
efx_tx_map_data(buf, ic, nr_frags, fail_at) ==
  LET n == IF fail_at <= nr_frags THEN fail_at ELSE nr_frags + 1
      slot(j) == [flags |-> IF j = nr_frags THEN {"SKB"} ELSE {"CONT"},
                  unmap_len |-> 1,
                  skb |-> (j = nr_frags), xdpf |-> 0]
  IN [buf |-> PutSlots(buf, ic, n, slot), ic |-> ic + n,
      rc |-> IF fail_at <= nr_frags THEN -EIO ELSE 0]

\* tx_queue->handle_tso: hardware offload descriptors.
\*   "mapped":   all NSegs descriptors built, data mapped
\*   "unmapped": one option descriptor built, data left to efx_tx_map_data
\*   "einval":   the queue cannot offload this packet, nothing built
\*   "error":    a mapping failed after one descriptor was built
TsoOutcomes == {"mapped", "unmapped", "einval", "error"}

handle_tso(buf, ic, tso) ==
  LET seg(j) == [flags |-> IF j = NSegs - 1 THEN {"SKB"} ELSE {"CONT"},
                 unmap_len |-> 1, skb |-> (j = NSegs - 1), xdpf |-> 0]
      opt(j) == [flags |-> {"OPTION"}, unmap_len |-> 0, skb |-> FALSE,
                 xdpf |-> 0]
      part(j) == [flags |-> {"CONT"}, unmap_len |-> 1, skb |-> FALSE,
                  xdpf |-> 0]
  IN CASE tso = "mapped" ->
            [buf |-> PutSlots(buf, ic, NSegs, seg), ic |-> ic + NSegs,
             rc |-> 0, data_mapped |-> TRUE]
       [] tso = "unmapped" ->
            [buf |-> PutSlots(buf, ic, 1, opt), ic |-> ic + 1,
             rc |-> 0, data_mapped |-> FALSE]
       [] tso = "einval" ->
            [buf |-> buf, ic |-> ic, rc |-> -EINVAL, data_mapped |-> FALSE]
       [] OTHER ->
            [buf |-> PutSlots(buf, ic, 1, part), ic |-> ic + 1,
             rc |-> -ENOMEM, data_mapped |-> FALSE]

\* efx_enqueue_unwind: walk back to insert_count old, unmapping and clearing
\* every slot on the way
efx_enqueue_unwind(buf, ic, old) ==
  LET clean(j) == CleanSlot
  IN [buf |-> PutSlots(buf, old, ic - old, clean), ic |-> old]

\* efx_nic_tx_is_empty: nothing of the queue is outstanding
efx_nic_tx_is_empty(q) == insert_count[q] = read_count[q]

\* efx_nic_may_tx_pio
efx_nic_may_tx_pio(q) ==
  /\ piobuf
  /\ efx_nic_tx_is_empty(q)
  /\ efx_nic_tx_is_empty(efx_tx_queue_partner(q))

(* ------------------------ efx_enqueue_skb: placement -------------------- *)

\* segments = skb_is_gso(skb) ? gso_segs : 0, and no TSO for one segment
Segments(skb) == IF skb.gso_segs = 1 THEN 0 ELSE skb.gso_segs

\* the PIO branch taken for unfragmented packets only
UsePio_Linear(q, skb, xmit_more) ==
  /\ Segments(skb) = 0
  /\ skb.frags = 0
  /\ skb.len <= efx_piobuf_size
  /\ ~xmit_more
  /\ efx_nic_may_tx_pio(q)

\* the PIO branch is taken
UsePio(q, skb, xmit_more) ==
  /\ Segments(skb) = 0
  /\ skb.len <= efx_piobuf_size
  /\ ~xmit_more
  /\ efx_nic_may_tx_pio(q)

\* the copy branch is taken (skb->data_len != 0: the packet has fragments)
UseCopy(q, skb, xmit_more) ==
  /\ Segments(skb) = 0
  /\ ~UsePio(q, skb, xmit_more)
  /\ skb.frags > 0
  /\ skb.len <= EFX_TX_CB_SIZE

\* the placement stages of efx_enqueue_skb, up to "goto err" or the call of
\* efx_tx_maybe_stop_queue; fallback: handle_tso returned -EINVAL
Placement(q, skb, xmit_more, env) ==
  LET buf == buffer[q]
      ic == insert_count[q]
  IN IF Segments(skb) # 0 THEN
       LET t == handle_tso(buf, ic, env.tso)
           m == efx_tx_map_data(t.buf, t.ic, skb.frags, env.fail_at)
       IN IF t.rc # 0 \/ t.data_mapped
            THEN [buf |-> t.buf, ic |-> t.ic, rc |-> t.rc, placed |-> {"tso"},
                  fallback |-> (t.rc = -EINVAL)]
            ELSE [buf |-> m.buf, ic |-> m.ic, rc |-> m.rc,
                  placed |-> {"tso", "map"}, fallback |-> FALSE]
     ELSE IF UsePio(q, skb, xmit_more) THEN
       LET p == efx_enqueue_skb_pio(buf, ic)
       IN [buf |-> p.buf, ic |-> p.ic, rc |-> p.rc, placed |-> {"pio"},
           fallback |-> FALSE]
     ELSE IF UseCopy(q, skb, xmit_more) THEN
       LET c == efx_enqueue_skb_copy(buf, ic, env.cb_ok)
       IN [buf |-> c.buf, ic |-> c.ic, rc |-> c.rc, placed |-> {"copy"},
           fallback |-> FALSE]
     ELSE
       LET m == efx_tx_map_data(buf, ic, skb.frags, env.fail_at)
       IN [buf |-> m.buf, ic |-> m.ic, rc |-> m.rc, placed |-> {"map"},
           fallback |-> FALSE]

(* ----------------------------- doorbell --------------------------------- *)
(* st = [wc, xma, ic]: write_count, xmit_more_available and insert_count   *)
(* of all queues.                                                          *)

\* efx_nic_push_buffers: every descriptor inserted so far becomes visible
efx_nic_push_buffers(st, q) ==
  [wc |-> [st.wc EXCEPT ![q] = st.ic[q]],
   xma |-> [st.xma EXCEPT ![q] = FALSE],
   ic |-> st.ic]

\* the push that leaves the partner queue alone
PushPair_OwnOnly(st, q) == efx_nic_push_buffers(st, q)

\* if (txq2->xmit_more_available) efx_nic_push_buffers(txq2);
\* efx_nic_push_buffers(tx_queue);
PushPair(st, q) ==
  LET q2 == efx_tx_queue_partner(q)
      s1 == IF st.xma[q2] THEN efx_nic_push_buffers(st, q2) ELSE st
  IN efx_nic_push_buffers(s1, q)

\* descriptors of the pair that a doorbell made visible
Pushed(wc, wc1) == (wc1[0] - wc[0]) + (wc1[1] - wc[1])

(* ------------------------------ inputs ---------------------------------- *)

NoFail == txq_entries + 1

\* queue 0 and the XDP queue have sent and completed Base0 one-descriptor
\* packets, so that their next descriptors wrap around the ring
Base0 == txq_entries - 1

Base(q) == IF q = 1 THEN 0 ELSE Base0

\* descriptors inserted since the start
Inserted == (insert_count[0] - Base0) + insert_count[1]

\* packets the stack hands to efx_enqueue_skb: any length and number of
\* fragments without offload, and a short and a long offload packet
Skbs ==
  [len : Lens, frags : 0..(desc_limit - 1), gso_segs : {0}]
  \cup [len : {64, 1500}, frags : {0}, gso_segs : {1, NSegs}]

\* packets skb_gso_segment makes of an offload packet: no longer GSO
SegSkbs == [len : Lens, frags : 0..((desc_limit \div NSegs) - 1), gso_segs : {0}]

\* what the environment decides during one call: the outcome of handle_tso,
\* the mapping that fails, whether a copy buffer is there, whether
\* skb_gso_segment succeeds; only the choices the call's branch reads vary
EnvFor(q, skb, xmit_more) ==
  IF Segments(skb) # 0 THEN
    {e \in [tso : TsoOutcomes, fail_at : 0..NoFail, cb_ok : {TRUE},
            gso_ok : BOOLEAN] :
       /\ (e.tso # "unmapped" => e.fail_at = NoFail)
       /\ (e.tso = "unmapped" => e.fail_at \in (0..skb.frags) \cup {NoFail})
       /\ (e.tso # "einval" => e.gso_ok)
       /\ (~faults => e.tso # "error" /\ e.fail_at = NoFail /\ e.gso_ok)}
  ELSE IF UsePio(q, skb, xmit_more) THEN
    {[tso |-> "mapped", fail_at |-> NoFail, cb_ok |-> TRUE, gso_ok |-> TRUE]}
  ELSE IF UseCopy(q, skb, xmit_more) THEN
    {[tso |-> "mapped", fail_at |-> NoFail, cb_ok |-> c, gso_ok |-> TRUE] :
       c \in IF faults THEN BOOLEAN ELSE {TRUE}}
  ELSE
    {[tso |-> "mapped", fail_at |-> f, cb_ok |-> TRUE, gso_ok |-> TRUE] :
       f \in IF faults THEN (0..skb.frags) \cup {NoFail} ELSE {NoFail}}

\* descriptors the packet needs
Need(skb, env) ==
  IF Segments(skb) = 0 THEN skb.frags + 1
  ELSE CASE env.tso = "mapped" -> NSegs
         [] env.tso = "unmapped" -> skb.frags + 2
         [] env.tso = "einval" -> NSegs
         [] OTHER -> 1

(* ------------------------- efx_enqueue_skb ------------------------------ *)

NoArg == [len |-> 64, frags |-> 0, gso_segs |-> 0]

\* no call in progress
NoCall == [active |-> FALSE, txq |-> 0, xmit_more |-> FALSE, segments |-> 0,
           nested |-> FALSE, old_insert_count |-> 0, skb |-> NoArg,
           unwound |-> 0, pushed |-> 0]

\* efx_tx_tso_fallback between two segments: the queue and xmit_more of the
\* call that fell back
LoopCall(q, xmit_more) ==
  [NoCall EXCEPT !.txq = q, !.xmit_more = xmit_more, !.nested = TRUE]

\* efx_enqueue_skb from its entry to "goto err", to the call of
\* efx_tx_tso_fallback's loop, or to the first access to shared state in
\* efx_tx_maybe_stop_queue (the cheap check reads only what the submitter
\* owns)
EnqueueBody(q, skb, xmit_more, env, nested) ==
  LET p == Placement(q, skb, xmit_more, env)
      ic1 == [insert_count EXCEPT ![q] = p.ic]
      segmented == p.fallback /\ env.gso_ok
  IN /\ cur' = [active |-> TRUE, txq |-> q, xmit_more |-> xmit_more,
                segments |-> Segments(skb), nested |-> nested,
                old_insert_count |-> insert_count[q], skb |-> skb,
                unwound |-> 0, pushed |-> 0]
     /\ placed' = p.placed
     /\ buffer' = [buffer EXCEPT ![q] = p.buf]
     /\ insert_count' = ic1
     \* skb_gso_segment makes the segments, dev_consume_skb_any(skb)
     /\ skb_live' = (IF nested THEN skb_live ELSE skb_live + 1)
                    + (IF segmented THEN Segments(skb) - 1 ELSE 0)
     /\ segs_left' = IF segmented THEN Segments(skb)
                     ELSE IF nested THEN segs_left - 1 ELSE segs_left
     /\ stats' = [stats EXCEPT ![q] =
                    IF p.fallback /\ ~segmented
                      THEN [@ EXCEPT !.tso_fallbacks = @ + 1]
                      ELSE @]
     /\ pc' = IF segmented THEN "fallback"
              ELSE IF p.rc # 0 THEN "err"
              ELSE IF PairFillOld(ic1, old_read_count, q) < txq_stop_thresh
                THEN "sent" ELSE "stop"
     /\ UNCHANGED <<vib_vars, pio_vars, tc_vars, xdp_vars, read_count, old_read_count, write_count,
                    xmit_more_available, stopped, loopback_selftest, piobuf,
                    desc_limit, faults, ret, low_seen>>

\* the stack submits a packet (only while the stack queue is not stopped)
efx_enqueue_skb ==
  /\ pc = "idle"
  /\ ~stopped
  /\ \E q \in TxQ, xmit_more \in BOOLEAN, skb \in Skbs :
       /\ \E env \in EnvFor(q, skb, xmit_more) :
            /\ Need(skb, env) <= desc_limit
            /\ Inserted <= MaxInsert
            /\ (env.tso = "einval" /\ Segments(skb) # 0
                  => stats[q].tso_fallbacks < MaxStat)
            /\ EnqueueBody(q, skb, xmit_more, env, FALSE)

\* efx_tx_tso_fallback: the loop hands the next segment to efx_enqueue_skb
efx_tx_tso_fallback_segment ==
  /\ pc = "fallback"
  /\ segs_left > 0
  /\ \E skb \in SegSkbs :
       \E env \in EnvFor(cur.txq, skb, cur.xmit_more) :
         EnqueueBody(cur.txq, skb, cur.xmit_more, env, TRUE)

\* where a call of efx_enqueue_skb returns to
ReturnTo(c) == IF c.nested THEN "fallback" ELSE "idle"
ReturnCall(c) == IF c.nested THEN LoopCall(c.txq, c.xmit_more) ELSE NoCall

\* the error path without the unwind
ErrPath_NoUnwind ==
  LET q == cur.txq
      u == [buf |-> buffer[q], ic |-> insert_count[q]]
      ic1 == [insert_count EXCEPT ![q] = u.ic]
      st == [wc |-> write_count, xma |-> xmit_more_available, ic |-> ic1]
      pushed == IF ~cur.xmit_more THEN PushPair(st, q) ELSE st
  IN /\ pc = "err"
     /\ buffer' = [buffer EXCEPT ![q] = u.buf]
     /\ insert_count' = ic1
     /\ skb_live' = skb_live - 1
     /\ write_count' = pushed.wc
     /\ xmit_more_available' = pushed.xma
     /\ ret' = NETDEV_TX_OK
     /\ pc' = "ret"
     /\ cur' = [cur EXCEPT !.unwound = insert_count[q] - cur.old_insert_count,
                           !.pushed = Pushed(write_count, pushed.wc)]
     /\ placed' = placed \cup {"unwind"}
     /\ UNCHANGED <<vib_vars, pio_vars, tc_vars, xdp_vars, read_count, old_read_count, stats, stopped,
                    loopback_selftest, piobuf, desc_limit, faults, segs_left,
                    low_seen>>

\* the error path pushing before it unwinds
ErrPath_PushFirst ==
  LET q == cur.txq
      u == efx_enqueue_unwind(buffer[q], insert_count[q], cur.old_insert_count)
      ic1 == [insert_count EXCEPT ![q] = u.ic]
      st == [wc |-> write_count, xma |-> xmit_more_available,
             ic |-> insert_count]
      pushed == IF ~cur.xmit_more THEN PushPair(st, q) ELSE st
  IN /\ pc = "err"
     /\ buffer' = [buffer EXCEPT ![q] = u.buf]
     /\ insert_count' = ic1
     /\ skb_live' = skb_live - 1
     /\ write_count' = pushed.wc
     /\ xmit_more_available' = pushed.xma
     /\ ret' = NETDEV_TX_OK
     /\ pc' = "ret"
     /\ cur' = [cur EXCEPT !.unwound = insert_count[q] - cur.old_insert_count,
                           !.pushed = Pushed(write_count, pushed.wc)]
     /\ placed' = placed \cup {"unwind"}
     /\ UNCHANGED <<vib_vars, pio_vars, tc_vars, xdp_vars, read_count, old_read_count, stats, stopped,
                    loopback_selftest, piobuf, desc_limit, faults, segs_left,
                    low_seen>>

\* the error path without dev_kfree_skb_any
ErrPath_NoFree ==
  LET q == cur.txq
      u == efx_enqueue_unwind(buffer[q], insert_count[q], cur.old_insert_count)
      ic1 == [insert_count EXCEPT ![q] = u.ic]
      st == [wc |-> write_count, xma |-> xmit_more_available, ic |-> ic1]
      pushed == IF ~cur.xmit_more THEN PushPair(st, q) ELSE st
  IN /\ pc = "err"
     /\ buffer' = [buffer EXCEPT ![q] = u.buf]
     /\ insert_count' = ic1
     /\ skb_live' = skb_live
     /\ write_count' = pushed.wc
     /\ xmit_more_available' = pushed.xma
     /\ ret' = NETDEV_TX_OK
     /\ pc' = "ret"
     /\ cur' = [cur EXCEPT !.unwound = insert_count[q] - cur.old_insert_count,
                           !.pushed = Pushed(write_count, pushed.wc)]
     /\ placed' = placed \cup {"unwind"}
     /\ UNCHANGED <<vib_vars, pio_vars, tc_vars, xdp_vars, read_count, old_read_count, stats, stopped,
                    loopback_selftest, piobuf, desc_limit, faults, segs_left,
                    low_seen>>

\* err: unwind to old_insert_count, release the packet, push what earlier
\* calls left if no further packet is announced, return NETDEV_TX_OK
ErrPath ==
  LET q == cur.txq
      u == efx_enqueue_unwind(buffer[q], insert_count[q], cur.old_insert_count)
      ic1 == [insert_count EXCEPT ![q] = u.ic]
      st == [wc |-> write_count, xma |-> xmit_more_available, ic |-> ic1]
      pushed == IF ~cur.xmit_more THEN PushPair(st, q) ELSE st
  IN /\ pc = "err"
     /\ buffer' = [buffer EXCEPT ![q] = u.buf]
     /\ insert_count' = ic1
     /\ skb_live' = skb_live - 1
     /\ write_count' = pushed.wc
     /\ xmit_more_available' = pushed.xma
     /\ ret' = NETDEV_TX_OK
     /\ pc' = "ret"
     /\ cur' = [cur EXCEPT !.unwound = insert_count[q] - cur.old_insert_count,
                           !.pushed = Pushed(write_count, pushed.wc)]
     /\ placed' = placed \cup {"unwind"}
     /\ UNCHANGED <<vib_vars, pio_vars, tc_vars, xdp_vars, read_count, old_read_count, stats, stopped,
                    loopback_selftest, piobuf, desc_limit, faults, segs_left,
                    low_seen>>

\* the fallback counted once per segment
efx_tx_tso_fallback_return_PerSegment ==
  /\ pc = "fallback"
  /\ segs_left = 0
  /\ stats' = [stats EXCEPT ![cur.txq].tso_fallbacks = @ + NSegs]
  /\ ret' = 0
  /\ pc' = "ret"
  /\ cur' = [cur EXCEPT !.nested = FALSE]
  /\ placed' = {"fallback"}
  /\ UNCHANGED <<vib_vars, pio_vars, tc_vars, xdp_vars, insert_count, read_count, old_read_count, write_count,
                 buffer, xmit_more_available, stopped, loopback_selftest,
                 piobuf, desc_limit, faults, segs_left, skb_live, low_seen>>

\* efx_tx_tso_fallback returned 0: tso_fallbacks++, return 0
efx_tx_tso_fallback_return ==
  /\ pc = "fallback"
  /\ segs_left = 0
  /\ stats' = [stats EXCEPT ![cur.txq].tso_fallbacks = @ + 1]
  /\ ret' = 0
  /\ pc' = "ret"
  /\ cur' = [cur EXCEPT !.nested = FALSE]
  /\ placed' = {"fallback"}
  /\ UNCHANGED <<vib_vars, pio_vars, tc_vars, xdp_vars, insert_count, read_count, old_read_count, write_count,
                 buffer, xmit_more_available, stopped, loopback_selftest,
                 piobuf, desc_limit, faults, segs_left, skb_live, low_seen>>

(* --------------------- efx_tx_maybe_stop_queue -------------------------- *)
(* The cheap check on old_read_count is part of EnqueueBody: it reads only *)
(* what the submitter owns.  From the stop on, every access to state shared *)
(* with the completion path is a step of its own.                          *)

TrueFill(q) ==
  Max(insert_count[q] - read_count[q],
      insert_count[efx_tx_queue_partner(q)]
        - read_count[efx_tx_queue_partner(q)])

\* netif_tx_stop_queue(txq1->core_txq); smp_mb();
MaybeStopStop ==
  /\ pc = "stop"
  /\ stopped' = TRUE
  /\ pc' = "read1"
  /\ UNCHANGED <<vib_vars, pio_vars, tc_vars, xdp_vars, insert_count, read_count, old_read_count, write_count,
                 buffer, xmit_more_available, stats, loopback_selftest,
                 piobuf, desc_limit, faults, cur, segs_left, placed, ret,
                 skb_live, low_seen>>

\* the recheck without a fresh read of the queue's read_count
MaybeStopRead1_Stale ==
  /\ pc = "read1"
  /\ old_read_count' = old_read_count
  /\ low_seen' = (TrueFill(cur.txq) < txq_stop_thresh)
  /\ pc' = "recheck"
  /\ UNCHANGED <<vib_vars, pio_vars, tc_vars, xdp_vars, insert_count, read_count, write_count, buffer,
                 xmit_more_available, stats, stopped, loopback_selftest,
                 piobuf, desc_limit, faults, cur, segs_left, placed, ret,
                 skb_live>>

\* the read that also moves read_count up to what was pushed
MaybeStopRead1_Reclaim ==
  /\ pc = "read1"
  /\ read_count' = [read_count EXCEPT ![cur.txq] = write_count[cur.txq]]
  /\ old_read_count' = [old_read_count EXCEPT ![cur.txq] = write_count[cur.txq]]
  /\ low_seen' = (TrueFill(cur.txq) < txq_stop_thresh)
  /\ pc' = "recheck"
  /\ UNCHANGED <<vib_vars, pio_vars, tc_vars, xdp_vars, insert_count, write_count, buffer,
                 xmit_more_available, stats, stopped, loopback_selftest,
                 piobuf, desc_limit, faults, cur, segs_left, placed, ret,
                 skb_live>>

\* the snapshot taken from write_count instead of read_count
MaybeStopRead1_WriteCount ==
  /\ pc = "read1"
  /\ old_read_count' = [old_read_count EXCEPT ![cur.txq] = write_count[cur.txq]]
  /\ low_seen' = (TrueFill(cur.txq) < txq_stop_thresh)
  /\ pc' = "recheck"
  /\ UNCHANGED <<vib_vars, pio_vars, tc_vars, xdp_vars, insert_count, read_count, write_count, buffer,
                 xmit_more_available, stats, stopped, loopback_selftest,
                 piobuf, desc_limit, faults, cur, segs_left, placed, ret,
                 skb_live>>

\* txq1->old_read_count = READ_ONCE(txq1->read_count);
MaybeStopRead1 ==
  /\ pc = "read1"
  /\ old_read_count' = [old_read_count EXCEPT ![cur.txq] = read_count[cur.txq]]
  /\ low_seen' = (TrueFill(cur.txq) < txq_stop_thresh)
  /\ pc' = "recheck"
  /\ UNCHANGED <<vib_vars, pio_vars, tc_vars, xdp_vars, insert_count, read_count, write_count, buffer,
                 xmit_more_available, stats, stopped, loopback_selftest,
                 piobuf, desc_limit, faults, cur, segs_left, placed, ret,
                 skb_live>>

\* the recheck that never restarts the queue
MaybeStopRecheck_NoRestart ==
  LET q2 == efx_tx_queue_partner(cur.txq)
      orc == [old_read_count EXCEPT ![q2] = read_count[q2]]
      fill_level == PairFillOld(insert_count, orc, cur.txq)
  IN /\ pc = "recheck"
     /\ old_read_count' = orc
     /\ stopped' = stopped
     /\ pc' = "sent"
     /\ UNCHANGED <<vib_vars, pio_vars, tc_vars, xdp_vars, insert_count, read_count, write_count, buffer,
                    xmit_more_available, stats, loopback_selftest, piobuf,
                    desc_limit, faults, cur, segs_left, placed, ret,
                    skb_live, low_seen>>

\* the recheck that restarts the queue whatever the fill level is
MaybeStopRecheck_AlwaysRestart ==
  LET q2 == efx_tx_queue_partner(cur.txq)
      orc == [old_read_count EXCEPT ![q2] = read_count[q2]]
  IN /\ pc = "recheck"
     /\ old_read_count' = orc
     /\ stopped' = IF ~loopback_selftest THEN FALSE ELSE stopped
     /\ pc' = "sent"
     /\ UNCHANGED <<vib_vars, pio_vars, tc_vars, xdp_vars, insert_count, read_count, write_count, buffer,
                    xmit_more_available, stats, loopback_selftest, piobuf,
                    desc_limit, faults, cur, segs_left, placed, ret,
                    skb_live, low_seen>>

\* txq2->old_read_count = READ_ONCE(txq2->read_count); the fill level again;
\* restart the queue if it is below the threshold and no self-test runs
MaybeStopRecheck ==
  LET q2 == efx_tx_queue_partner(cur.txq)
      orc == [old_read_count EXCEPT ![q2] = read_count[q2]]
      fill_level == PairFillOld(insert_count, orc, cur.txq)
  IN /\ pc = "recheck"
     /\ old_read_count' = orc
     /\ stopped' = IF fill_level < txq_stop_thresh /\ ~loopback_selftest
                     THEN FALSE ELSE stopped
     /\ pc' = "sent"
     /\ UNCHANGED <<vib_vars, pio_vars, tc_vars, xdp_vars, insert_count, read_count, write_count, buffer,
                    xmit_more_available, stats, loopback_selftest, piobuf,
                    desc_limit, faults, cur, segs_left, placed, ret,
                    skb_live, low_seen>>

\* __netdev_tx_sent_queue: push now unless more is announced and the queue runs
netdev_tx_sent_queue(xmit_more) == ~xmit_more \/ stopped

\* the counters that count one burst per segment
SentStats_BurstPerSegment(st, segments) ==
  IF segments # 0
    THEN [st EXCEPT !.tso_bursts = @ + segments,
                    !.tso_packets = @ + segments,
                    !.tx_packets = @ + segments]
    ELSE [st EXCEPT !.tx_packets = @ + 1]

\* the counters of a successful submission
SentStats(st, segments) ==
  IF segments # 0
    THEN [st EXCEPT !.tso_bursts = @ + 1, !.tso_packets = @ + segments,
                    !.tx_packets = @ + segments]
    ELSE [st EXCEPT !.tx_packets = @ + 1]

\* efx_enqueue_skb after efx_tx_maybe_stop_queue: push or defer, count, return
SentQueue ==
  LET q == cur.txq
      st == [wc |-> write_count, xma |-> xmit_more_available,
             ic |-> insert_count]
      after == IF netdev_tx_sent_queue(cur.xmit_more)
                 THEN PushPair(st, q)
                 ELSE [st EXCEPT !.xma[q] = cur.xmit_more]
  IN /\ pc = "sent"
     /\ write_count' = after.wc
     /\ xmit_more_available' = after.xma
     /\ stats' = [stats EXCEPT ![q] = SentStats(@, cur.segments)]
     /\ ret' = NETDEV_TX_OK
     /\ pc' = "ret"
     /\ cur' = [cur EXCEPT !.pushed = Pushed(write_count, after.wc)]
     /\ UNCHANGED <<vib_vars, pio_vars, tc_vars, xdp_vars, insert_count, read_count, old_read_count, buffer,
                    stopped, loopback_selftest, piobuf, desc_limit, faults,
                    segs_left, placed, skb_live, low_seen>>

\* the call returns to the stack or to the loop of efx_tx_tso_fallback
efx_enqueue_skb_return ==
  /\ pc = "ret"
  /\ pc' = ReturnTo(cur)
  /\ cur' = ReturnCall(cur)
  /\ placed' = {}
  /\ low_seen' = FALSE
  /\ UNCHANGED <<vib_vars, pio_vars, tc_vars, xdp_vars, insert_count, read_count, old_read_count, write_count,
                 buffer, xmit_more_available, stats, stopped,
                 loopback_selftest, piobuf, desc_limit, faults, segs_left,
                 ret, skb_live>>

(* --------------------------- completion path ---------------------------- *)

\* efx_xmit_done: the NIC completed the next n pushed descriptors (whole
\* packets); their slots are released, read_count advances, and a stopped
\* stack queue is woken once the pair's fill level is at most txq_wake_thresh
efx_xmit_done(q) ==
  \E n \in 1..txq_entries :
    LET done == {InsertIndex(read_count[q] + j) : j \in 0..(n - 1)}
        released == Cardinality({i \in done : buffer[q][i].skb})
        rc1 == [read_count EXCEPT ![q] = @ + n]
        q2 == efx_tx_queue_partner(q)
        fill_level == Max(insert_count[q] - rc1[q], insert_count[q2] - rc1[q2])
    IN /\ n <= write_count[q] - read_count[q]
       /\ "SKB" \in buffer[q][InsertIndex(read_count[q] + n - 1)].flags
       /\ buffer' = [buffer EXCEPT ![q] =
                       [i \in 0..(txq_entries - 1) |->
                          IF i \in done THEN CleanSlot ELSE @[i]]]
       /\ read_count' = rc1
       /\ skb_live' = skb_live - released
       /\ stopped' = IF stopped /\ fill_level <= txq_wake_thresh
                       THEN FALSE ELSE stopped
       /\ UNCHANGED <<vib_vars, pio_vars, tc_vars, xdp_vars, insert_count, old_read_count, write_count,
                      xmit_more_available, stats, loopback_selftest, piobuf,
                      desc_limit, faults, pc, cur, segs_left, placed, ret,
                      low_seen>>

TxDone == \E q \in TxQ : efx_xmit_done(q)

(* ------------------------------- XDP ------------------------------------ *)

\* CPUs that call efx_xdp_tx_buffers (the domain of xdp_tx_queues)
Cpus == {0, 1}
\* efx->xdp_tx_queues[cpu] == NULL
NoQueue == -1

\* frames handed to the driver so far; the frames of a call are numbered on
NextFrame == xdp_call.first + xdp_call.n

\* the loop without the test of the available space
RECURSIVE XdpLoop_NoSpace(_, _, _, _, _, _)
XdpLoop_NoSpace(i, n, space, fail_at, first, st) ==
  IF i >= n \/ i = fail_at
    THEN [i |-> i, st |-> st]
    ELSE XdpLoop_NoSpace(i + 1, n, space, fail_at, first,
                 [buf |-> [st.buf EXCEPT ![InsertIndex(st.ic)] =
                             [flags |-> {"XDP", "MAP_SINGLE"}, unmap_len |-> 1,
                              skb |-> FALSE, xdpf |-> first + i + 1]],
                  ic |-> st.ic + 1,
                  tx_packets |-> st.tx_packets + 1])

\* the loop of efx_xdp_tx_buffers from frame i on: st = [buf, ic, tx_packets];
\* it stops at n, at the available space, or at the frame whose
\* dma_map_single fails; yields the state and the final i
RECURSIVE XdpLoop(_, _, _, _, _, _)
XdpLoop(i, n, space, fail_at, first, st) ==
  IF i >= n \/ i >= space \/ i = fail_at
    THEN [i |-> i, st |-> st]
    ELSE XdpLoop(i + 1, n, space, fail_at, first,
                 [buf |-> [st.buf EXCEPT ![InsertIndex(st.ic)] =
                             [flags |-> {"XDP", "MAP_SINGLE"}, unmap_len |-> 1,
                              skb |-> FALSE, xdpf |-> first + i + 1]],
                  ic |-> st.ic + 1,
                  tx_packets |-> st.tx_packets + 1])

\* the return loop starting one frame early
efx_xdp_return_frames_Early(fr, from, n) ==
  [id \in DOMAIN fr |->
     IF id >= from /\ id < from + n
       THEN [fr[id] EXCEPT !.returned = @ + 1] ELSE fr[id]]

\* efx_xdp_return_frames(n, xdpfs): xdp_return_frame_rx_napi for frames
\* from + 1 .. from + n
efx_xdp_return_frames(fr, from, n) ==
  [id \in DOMAIN fr |->
     IF id > from /\ id <= from + n
       THEN [fr[id] EXCEPT !.returned = @ + 1] ELSE fr[id]]

\* the validation that skips the test of the frame array
XdpInvalid_NoArrayCheck(cpu, n, has_xdpfs) ==
  \/ xdp_tx_queue_count = 0
  \/ cpu >= xdp_tx_queue_count
  \/ xdp_tx_queues[cpu] = NoQueue

\* the three tests of efx_xdp_tx_buffers that end in return -EINVAL
XdpInvalid(cpu, n, has_xdpfs) ==
  \/ xdp_tx_queue_count = 0
  \/ cpu >= xdp_tx_queue_count
  \/ xdp_tx_queues[cpu] = NoQueue
  \/ n # 0 /\ ~has_xdpfs

\* the push made whenever flush is set
XdpFlush_Always(flush, i) == flush

\* if (flush && i > 0) efx_nic_push_buffers(tx_queue);
XdpFlush(flush, i) == flush /\ i > 0

\* efx_xdp_tx_buffers(efx, n, xdpfs, flush) on CPU cpu; has_xdpfs: xdpfs is
\* not NULL; fail_at: the frame whose mapping fails (n: none); xdp_call
\* keeps the CPU of the call and whether it had n != 0 with xdpfs NULL
efx_xdp_tx_buffers ==
  \E cpu \in DOMAIN xdp_tx_queues, n \in 0..MaxBatch,
     has_xdpfs \in BOOLEAN, flush \in BOOLEAN :
    LET frames == IF has_xdpfs THEN n ELSE 0
        call == [n |-> frames, first |-> NextFrame, sent |-> 0,
                 flush |-> flush, bound |-> FALSE, fail_at |-> 0,
                 space |-> 0, cpu |-> cpu,
                 null_xdpfs |-> (n # 0 /\ ~has_xdpfs)]
    IN /\ pc = "idle"
       /\ NextFrame + frames <= MaxFrames
       /\ \/ \* no queue for this CPU, or no frame array: -EINVAL
             /\ XdpInvalid(cpu, n, has_xdpfs)
             /\ ret' = -EINVAL
             /\ xdp_call' = call
             /\ UNCHANGED <<insert_count, write_count, buffer,
                            xmit_more_available, stats, xdp_frames>>
          \/ \* nothing to send
             /\ ~XdpInvalid(cpu, n, has_xdpfs)
             /\ n = 0
             /\ ret' = 0
             /\ xdp_call' = [call EXCEPT !.bound = TRUE]
             /\ UNCHANGED <<insert_count, write_count, buffer,
                            xmit_more_available, stats, xdp_frames>>
          \/ \* the loop, the push, the return of what was not queued
             /\ ~XdpInvalid(cpu, n, has_xdpfs)
             /\ n # 0
             /\ \E fail_at \in 0..n :
                  LET q == xdp_tx_queues[cpu]
                      space == txq_entries + read_count[q] - insert_count[q]
                      l == XdpLoop(0, n, space, fail_at, NextFrame,
                                   [buf |-> buffer[q], ic |-> insert_count[q],
                                    tx_packets |-> stats[q].tx_packets])
                      ic1 == [insert_count EXCEPT ![q] = l.st.ic]
                      st == [wc |-> write_count, xma |-> xmit_more_available,
                             ic |-> ic1]
                      pushed == IF XdpFlush(flush, l.i)
                                  THEN efx_nic_push_buffers(st, q) ELSE st
                  IN /\ buffer' = [buffer EXCEPT ![q] = l.st.buf]
                     /\ insert_count' = ic1
                     /\ stats' = [stats EXCEPT ![q].tx_packets = l.st.tx_packets]
                     /\ write_count' = pushed.wc
                     /\ xmit_more_available' = pushed.xma
                     /\ xdp_frames' =
                          IF l.i = 0 THEN xdp_frames
                          ELSE efx_xdp_return_frames(xdp_frames,
                                                     NextFrame + l.i, n - l.i)
                     /\ ret' = IF l.i = 0 THEN -EIO ELSE l.i
                     /\ xdp_call' = [call EXCEPT !.bound = TRUE, !.sent = l.i,
                                                 !.fail_at = fail_at,
                                                 !.space = space]
       /\ UNCHANGED <<vib_vars, pio_vars, tc_vars, read_count, old_read_count, stopped,
                      loopback_selftest, piobuf, desc_limit, faults, pc, cur,
                      segs_left, placed, skb_live, low_seen,
                      xdp_tx_queue_count, xdp_tx_queues>>

\* the completion path of the XDP queue: the NIC completed the next n pushed
\* descriptors; each frame is released and its slot cleared
efx_xmit_done_xdp ==
  \E n \in 1..txq_entries :
    LET q == XdpQ
        done == {InsertIndex(read_count[q] + j) : j \in 0..(n - 1)}
        ids == {buffer[q][i].xdpf : i \in done}
    IN /\ n <= write_count[q] - read_count[q]
       /\ buffer' = [buffer EXCEPT ![q] =
                       [i \in 0..(txq_entries - 1) |->
                          IF i \in done THEN CleanSlot ELSE @[i]]]
       /\ read_count' = [read_count EXCEPT ![q] = @ + n]
       /\ xdp_frames' = [id \in DOMAIN xdp_frames |->
                           IF id \in ids
                             THEN [xdp_frames[id] EXCEPT !.done = @ + 1]
                             ELSE xdp_frames[id]]
       /\ UNCHANGED <<vib_vars, pio_vars, tc_vars, insert_count, old_read_count, write_count,
                      xmit_more_available, stats, stopped, loopback_selftest,
                      piobuf, desc_limit, faults, pc, cur, segs_left, placed,
                      ret, skb_live, low_seen, xdp_tx_queue_count,
                      xdp_tx_queues, xdp_call>>

(* ---------------- queue selection and traffic classes ----------------- *)

\* what these operations leave alone: the rings and the XDP transmit path
tx_vars == <<xdp_vars, insert_count, read_count, old_read_count, write_count,
             buffer, xmit_more_available, stats, stopped, loopback_selftest,
             piobuf, desc_limit, faults, pc, cur, segs_left, placed, ret,
             skb_live, low_seen>>

\* no stack queue: tx_queue->core_txq not set yet
NoCoreTxq == -1

\* the TX queues of all channels, numbered channel * EFX_TXQ_TYPES + type,
\* in the order in which efx_setup_tc walks them
TcQueues == 0..((n_tx_channels + ExtraChannels) * EFX_TXQ_TYPES - 1)

\* tx_queue->queue & EFX_TXQ_TYPE_HIGHPRI
IsHighpri(q) == (q \div EFX_TXQ_TYPE_HIGHPRI) % 2 = 1

\* tx_queue->queue & EFX_TXQ_TYPE_OFFLOAD
IsOffload(q) == q % 2 = EFX_TXQ_TYPE_OFFLOAD

\* the binding that forgets the high-priority offset
efx_init_tx_queue_core_txq_NoPri(q) == q \div EFX_TXQ_TYPES

\* efx_init_tx_queue_core_txq: the index of the stack queue tx_queue is bound to
efx_init_tx_queue_core_txq(q) ==
  q \div EFX_TXQ_TYPES + (IF IsHighpri(q) THEN n_tx_channels ELSE 0)

\* efx_get_tx_queue(efx, index, type)
efx_get_tx_queue(index, type) == index * EFX_TXQ_TYPES + type

\* the queue lookup of efx_hard_start_xmit for a packet the stack mapped to
\* queue `index`; csum: skb->ip_summed == CHECKSUM_PARTIAL
XmitQueue(index, csum) ==
  LET type == IF csum THEN EFX_TXQ_TYPE_OFFLOAD ELSE 0
  IN IF index >= n_tx_channels
       THEN efx_get_tx_queue(index - n_tx_channels,
                             type + EFX_TXQ_TYPE_HIGHPRI)
       ELSE efx_get_tx_queue(index, type)

\* efx_hard_start_xmit up to the call of efx_enqueue_skb, for a packet that
\* is not a PTP event packet: the stack mapped it to one of its
\* real_num_tx_queues queues
efx_hard_start_xmit ==
  \E index \in 0..(real_num_tx_queues - 1), csum \in BOOLEAN :
    /\ xmit_sel' = [index |-> index, csum |-> csum,
                    queue |-> XmitQueue(index, csum)]
    /\ UNCHANGED <<vib_vars, pio_vars, tx_vars, n_tx_channels, num_tc, real_num_tx_queues,
                   tc_to_txq, txq_buffer, txq_initialised, core_txq, tc_pc,
                   tc_i, tc_call>>

\* the call record of efx_setup_tc: the requested count, the class count at
\* entry, mqprio->hw written, the return code
TcCall(req, old, hw, rc) == [num_tc |-> req, old |-> old, hw |-> hw, rc |-> rc]

\* efx_setup_tc from its entry to the branch on num_tc > net_dev->num_tc;
\* mqprio: type == TC_SETUP_QDISC_MQPRIO
efx_setup_tc ==
  \E mqprio \in BOOLEAN, req \in 0..(EFX_MAX_TX_TC + 1) :
    /\ tc_pc = "idle"
    /\ IF ~mqprio THEN
         /\ tc_call' = TcCall(req, num_tc, FALSE, -EOPNOTSUPP)
         /\ UNCHANGED <<tc_pc, tc_to_txq, num_tc>>
       ELSE IF req > EFX_MAX_TX_TC THEN
         /\ tc_call' = TcCall(req, num_tc, FALSE, -EINVAL)
         /\ UNCHANGED <<tc_pc, tc_to_txq, num_tc>>
       ELSE IF req = num_tc THEN
         /\ tc_call' = TcCall(req, num_tc, TRUE, 0)
         /\ UNCHANGED <<tc_pc, tc_to_txq, num_tc>>
       ELSE
         /\ tc_call' = TcCall(req, num_tc, TRUE, 0)
         /\ tc_to_txq' = [tc \in 0..(EFX_MAX_TX_TC - 1) |->
                            IF tc < req
                              THEN [offset |-> tc * n_tx_channels,
                                    count |-> n_tx_channels]
                              ELSE tc_to_txq[tc]]
         /\ IF req > num_tc
              THEN tc_pc' = "provision" /\ UNCHANGED num_tc
              ELSE tc_pc' = "real" /\ num_tc' = req
    /\ tc_i' = 0
    /\ UNCHANGED <<vib_vars, pio_vars, tx_vars, n_tx_channels, real_num_tx_queues, txq_buffer,
                   txq_initialised, core_txq, xmit_sel>>

\* the loop body of efx_setup_tc for the high-priority queue q; probe_ok:
\* efx_probe_tx_queue returns 0
ProvisionQueue(q, probe_ok) ==
  IF ~txq_buffer[q] /\ ~probe_ok
    THEN /\ tc_call' = [tc_call EXCEPT !.rc = -ENOMEM]
         /\ tc_pc' = "idle"
         /\ UNCHANGED <<txq_buffer, txq_initialised, core_txq, tc_i>>
    ELSE /\ txq_buffer' = [txq_buffer EXCEPT ![q] = TRUE]
         /\ txq_initialised' = [txq_initialised EXCEPT ![q] = TRUE]
         /\ core_txq' = [core_txq EXCEPT
                           ![q] = efx_init_tx_queue_core_txq(q)]
         /\ tc_i' = tc_i + 1
         /\ UNCHANGED <<tc_call, tc_pc>>

\* one round of the loop over the channels and their possible TX queues
efx_setup_tc_provision ==
  /\ tc_pc = "provision"
  /\ IF tc_i \notin TcQueues THEN
       /\ tc_pc' = "real"
       /\ UNCHANGED <<txq_buffer, txq_initialised, core_txq, tc_i, tc_call>>
     ELSE IF ~IsHighpri(tc_i) THEN
       /\ tc_i' = tc_i + 1
       /\ UNCHANGED <<txq_buffer, txq_initialised, core_txq, tc_pc, tc_call>>
     ELSE
       \E probe_ok \in BOOLEAN : ProvisionQueue(tc_i, probe_ok)
  /\ UNCHANGED <<vib_vars, pio_vars, tx_vars, n_tx_channels, num_tc, real_num_tx_queues,
                 tc_to_txq, xmit_sel>>

\* the step that goes on although netif_set_real_num_tx_queues failed
efx_setup_tc_real_IgnoreRc ==
  \E set_ok \in BOOLEAN :
    /\ tc_pc = "real"
    /\ real_num_tx_queues' =
         IF set_ok THEN Max(tc_call.num_tc, 1) * n_tx_channels
         ELSE real_num_tx_queues
    /\ tc_pc' = "advertise"
    /\ UNCHANGED <<vib_vars, pio_vars, tx_vars, tc_call, n_tx_channels, num_tc, tc_to_txq,
                   txq_buffer, txq_initialised, core_txq, tc_i, xmit_sel>>

\* rc = netif_set_real_num_tx_queues(net_dev, max(num_tc, 1) * n_tx_channels);
\* if (rc) return rc;
efx_setup_tc_real ==
  \E set_ok \in BOOLEAN :
    /\ tc_pc = "real"
    /\ IF set_ok
         THEN /\ real_num_tx_queues' = Max(tc_call.num_tc, 1) * n_tx_channels
              /\ tc_pc' = "advertise"
              /\ UNCHANGED tc_call
         ELSE /\ tc_call' = [tc_call EXCEPT !.rc = -EINVAL]
              /\ tc_pc' = "idle"
              /\ UNCHANGED real_num_tx_queues
    /\ UNCHANGED <<vib_vars, pio_vars, tx_vars, n_tx_channels, num_tc, tc_to_txq, txq_buffer,
                   txq_initialised, core_txq, tc_i, xmit_sel>>

\* the end of a call that destroys the high-priority queues once fewer than
\* two classes are left
efx_setup_tc_advertise_Fini ==
  /\ tc_pc = "advertise"
  /\ num_tc' = tc_call.num_tc
  /\ tc_pc' = "idle"
  /\ txq_buffer' = [q \in TcQueues |->
                      IF IsHighpri(q) /\ tc_call.num_tc < 2
                        THEN FALSE ELSE txq_buffer[q]]
  /\ txq_initialised' = [q \in TcQueues |->
                           IF IsHighpri(q) /\ tc_call.num_tc < 2
                             THEN FALSE ELSE txq_initialised[q]]
  /\ UNCHANGED <<vib_vars, pio_vars, tx_vars, n_tx_channels, real_num_tx_queues, tc_to_txq,
                 core_txq, tc_i, tc_call, xmit_sel>>

\* net_dev->num_tc = num_tc; return 0;
efx_setup_tc_advertise ==
  /\ tc_pc = "advertise"
  /\ num_tc' = tc_call.num_tc
  /\ tc_pc' = "idle"
  /\ UNCHANGED <<vib_vars, pio_vars, tx_vars, n_tx_channels, real_num_tx_queues, tc_to_txq,
                 txq_buffer, txq_initialised, core_txq, tc_i, tc_call,
                 xmit_sel>>

(* ---------------------- copy to the PIO buffer -------------------------- *)
(* Bytes are numbers; byte k of the packet has the value k.  The copy     *)
(* state st is [piobuf, buf, used, writes, bug]: the offset *piobuf has    *)
(* reached, copy_buf->buf, copy_buf->used, the writes made to the PIO     *)
(* region (offset and bytes) and whether a BUG_ON fired.                   *)

\* what the copy leaves alone
ring_vars == <<xdp_vars, read_count, old_read_count, write_count,
               xmit_more_available, stats, stopped, loopback_selftest,
               piobuf, desc_limit, faults, pc, cur, segs_left, placed, ret,
               skb_live, low_seen>>

\* lengths of a head or of a fragment: less than a block, a block, more
PieceLens ==
  {1, L1_CACHE_BYTES \div 2, L1_CACHE_BYTES - 1, L1_CACHE_BYTES,
   L1_CACHE_BYTES + 1, 2 * L1_CACHE_BYTES, 2 * L1_CACHE_BYTES + 1}

\* values of the bytes that the code reads without having written them
JunkBytes == {0, 1}

\* the packets: a head and up to MaxFrags fragments
PioSkbs ==
  [head : PieceLens,
   frags : UNION {[1..k -> PieceLens] : k \in 0..MaxFrags},
   junk : JunkBytes]

RECURSIVE SumLens(_, _)
\* the first k lengths of the sequence ls together
SumLens(ls, k) == IF k = 0 THEN 0 ELSE SumLens(ls, k - 1) + ls[k]

\* skb->len
SkbLen(skb) == skb.head + SumLens(skb.frags, Len(skb.frags))

\* bytes from + 1 .. from + len of the packet
PacketBytes(from, len) == [k \in 1..len |-> from + k]

\* ALIGN(len, L1_CACHE_BYTES)
AlignUp(len) ==
  ((len + L1_CACHE_BYTES - 1) \div L1_CACHE_BYTES) * L1_CACHE_BYTES

\* __iowrite64_copy(*piobuf, src, count): count 64-bit words of src go to
\* the PIO region at the offset piobuf has reached
iowrite64_copy(st, src, count) ==
  IF count = 0 THEN st
  ELSE [st EXCEPT !.writes =
          Append(@, [at |-> st.piobuf,
                     data |-> [k \in 1..(count * 8) |-> src[k]]])]

\* efx_memcpy_toio_aligned
efx_memcpy_toio_aligned(st, data) ==
  LET len == Len(data)
      block_len == len - (len % L1_CACHE_BYTES)
      s1 == [iowrite64_copy(st, data, block_len \div 8)
               EXCEPT !.piobuf = st.piobuf + block_len]
      rest == len - block_len
  IN IF rest = 0 THEN s1
     ELSE [s1 EXCEPT
             !.bug = @ \/ st.used # 0 \/ rest > L1_CACHE_BYTES,
             !.buf = [i \in 1..L1_CACHE_BYTES |->
                        IF i <= rest THEN data[block_len + i] ELSE st.buf[i]],
             !.used = rest]

\* efx_memcpy_toio_aligned_cb
efx_memcpy_toio_aligned_cb(st, data) ==
  IF st.used = 0 THEN efx_memcpy_toio_aligned(st, data)
  ELSE
    LET len == Len(data)
        copy_to_buf == Min(L1_CACHE_BYTES - st.used, len)
        buf1 == [i \in 1..L1_CACHE_BYTES |->
                   IF i > st.used /\ i <= st.used + copy_to_buf
                     THEN data[i - st.used] ELSE st.buf[i]]
        s1 == [st EXCEPT !.buf = buf1, !.used = st.used + copy_to_buf]
        s2 == [iowrite64_copy(s1, buf1, L1_CACHE_BYTES \div 8)
                 EXCEPT !.piobuf = @ + L1_CACHE_BYTES, !.used = 0]
    IN IF s1.used < L1_CACHE_BYTES THEN s1
       ELSE efx_memcpy_toio_aligned(
              s2, [k \in 1..(len - copy_to_buf) |-> data[copy_to_buf + k]])

\* the flush that writes only the bytes the copy buffer holds
efx_flush_copy_buffer_Short(st) ==
  IF st.used # 0
    THEN [st EXCEPT !.writes =
            Append(@, [at |-> st.piobuf,
                       data |-> [k \in 1..st.used |-> st.buf[k]]])]
    ELSE st

\* efx_flush_copy_buffer: the whole buffer, including junk
efx_flush_copy_buffer(st) ==
  IF st.used # 0
    THEN iowrite64_copy(st, st.buf, L1_CACHE_BYTES \div 8)
    ELSE st

\* no copy in progress
PioIdle ==
  /\ pio_skb = [head |-> 1, frags |-> <<>>, junk |-> 0]
  /\ pio_st = [piobuf |-> 0, buf |-> <<>>, used |-> 0, writes |-> <<>>,
               bug |-> FALSE]
  /\ pio_i = 0
  /\ pio_pc = "idle"

\* efx_enqueue_skb_pio up to the copy: with fragments copy_buf.used = 0 and
\* copy_buf.buf holds what the stack held; without, the one padded write of
\* skb->data and of what follows it in memory
PioStart ==
  /\ pio_pc = "start"
  /\ LET st == [pio_st EXCEPT
                  !.buf = [i \in 1..L1_CACHE_BYTES |-> pio_skb.junk],
                  !.used = 0]
         len == SkbLen(pio_skb)
         src == [k \in 1..AlignUp(len) |->
                   IF k <= len THEN k ELSE pio_skb.junk]
     IN IF Len(pio_skb.frags) # 0
          THEN pio_st' = st /\ pio_pc' = "head"
          ELSE /\ pio_st' = iowrite64_copy(st, src, AlignUp(len) \div 8)
               /\ pio_pc' = "desc"
  /\ pio_i' = 1
  /\ UNCHANGED <<pio_skb, vib_vars, tc_vars, ring_vars, insert_count, buffer>>

\* efx_skb_copy_bits_to_pio: the linear head
PioHead ==
  /\ pio_pc = "head"
  /\ pio_st' = efx_memcpy_toio_aligned(pio_st, PacketBytes(0, pio_skb.head))
  /\ pio_pc' = "frag"
  /\ UNCHANGED <<pio_skb, pio_i, vib_vars, tc_vars, ring_vars, insert_count, buffer>>

\* efx_skb_copy_bits_to_pio: fragment pio_i, or the flush after the last one
PioFrag ==
  /\ pio_pc = "frag"
  /\ IF pio_i <= Len(pio_skb.frags)
       THEN /\ pio_st' = efx_memcpy_toio_aligned_cb(
                           pio_st,
                           PacketBytes(pio_skb.head
                                         + SumLens(pio_skb.frags, pio_i - 1),
                                       pio_skb.frags[pio_i]))
            /\ pio_i' = pio_i + 1
            /\ UNCHANGED pio_pc
       ELSE /\ pio_st' = efx_flush_copy_buffer(pio_st)
            /\ pio_pc' = "desc"
            /\ UNCHANGED pio_i
  /\ UNCHANGED <<pio_skb, vib_vars, tc_vars, ring_vars, insert_count, buffer>>

\* efx_enqueue_skb_pio after the copy: the option descriptor, ++insert_count
PioDesc ==
  /\ pio_pc = "desc"
  /\ LET d == efx_enqueue_skb_pio(buffer[0], insert_count[0])
     IN /\ buffer' = [buffer EXCEPT ![0] = d.buf]
        /\ insert_count' = [insert_count EXCEPT ![0] = d.ic]
  /\ pio_pc' = "done"
  /\ UNCHANGED <<pio_skb, pio_st, pio_i, vib_vars, tc_vars, ring_vars>>

(* --------------------------- clock vibrator ----------------------------- *)
(* vibrator is [magnitude, enabled, clk_prepare, clk_enable, vcc,          *)
(* enable_gpio, duty]: the two fields of struct clk_vibrator that change,   *)
(* the prepare and enable counts of the clock, the enable count of the     *)
(* regulator, the level of the enable GPIO and the duty cycle last set.    *)
(* clk_vibrator_start and clk_vibrator_stop hold vibrator->mutex from      *)
(* their first statement to their last, so each is one step.               *)

\* what the vibrator leaves alone
net_vars == <<pio_vars, tc_vars, ring_vars, insert_count, buffer>>

\* the call of clk_vibrator_start that fails, if any
StartFailures == {"none", "clk_set_rate", "clk_prepare_enable",
                  "regulator_enable"}

\* clk_vibrator_start that leaves the clock enabled when the regulator fails
clk_vibrator_start_NoClkDisable(v, fail) ==
  IF ~v.enabled
    THEN IF fail \in {"clk_set_rate", "clk_prepare_enable"} THEN v
         ELSE IF fail = "regulator_enable"
           THEN [v EXCEPT !.clk_prepare = @ + 1, !.clk_enable = @ + 1]
         ELSE [v EXCEPT !.clk_prepare = @ + 1, !.clk_enable = @ + 1,
                        !.vcc = @ + 1, !.enable_gpio = 1, !.enabled = TRUE,
                        !.duty = v.magnitude]
    ELSE [v EXCEPT !.duty = v.magnitude]

\* clk_vibrator_start
clk_vibrator_start(v, fail) ==
  IF ~v.enabled
    THEN IF fail = "clk_set_rate" THEN v
         \* a clk_prepare_enable that fails has undone what it did
         ELSE IF fail = "clk_prepare_enable" THEN v
         ELSE LET c == [v EXCEPT !.clk_prepare = @ + 1, !.clk_enable = @ + 1]
              IN IF fail = "regulator_enable"
                   \* clk_disable(vibrator->clk); goto unlock;
                   THEN [c EXCEPT !.clk_enable = @ - 1]
                   ELSE [c EXCEPT !.vcc = @ + 1, !.enable_gpio = 1,
                                  !.enabled = TRUE, !.duty = v.magnitude]
    ELSE [v EXCEPT !.duty = v.magnitude]

\* clk_vibrator_stop
clk_vibrator_stop(v) ==
  IF v.enabled
    THEN [v EXCEPT !.enable_gpio = 0, !.vcc = @ - 1, !.clk_enable = @ - 1,
                   !.enabled = FALSE]
    ELSE v

\* the step that runs clk_vibrator_start: any of its calls may fail
StartStep ==
  /\ ~vibrator.enabled => vibrator.clk_prepare < MaxPrepare
  /\ \E fail \in StartFailures :
       vibrator' = clk_vibrator_start(vibrator, fail)

\* after clk_vibrator_probe: off, nothing queued, nobody in a call
VibIdle ==
  /\ vibrator = [magnitude |-> 0, enabled |-> FALSE, clk_prepare |-> 0,
                 clk_enable |-> 0, vcc |-> 0, enable_gpio |-> 0, duty |-> 0]
  /\ work_pending = FALSE
  /\ worker_pc = "idle"
  /\ close_pc = "idle"
  /\ pm_pc = "running"
  /\ pm_call = [running |-> FALSE]

\* clk_vibrator_play_effect: the magnitude is stored, the worker queued
clk_vibrator_play_effect ==
  /\ \E strong_magnitude \in 0..MaxMagnitude,
        weak_magnitude \in 0..MaxMagnitude :
       vibrator' = [vibrator EXCEPT !.magnitude =
                      IF strong_magnitude > 0 THEN strong_magnitude
                      ELSE weak_magnitude]
  /\ work_pending' = TRUE
  /\ UNCHANGED <<worker_pc, close_pc, pm_pc, pm_call, net_vars>>

\* clk_vibrator_worker starts: it reads vibrator->magnitude
clk_vibrator_worker ==
  /\ work_pending
  /\ worker_pc = "idle"
  /\ work_pending' = FALSE
  /\ worker_pc' = IF vibrator.magnitude # 0 THEN "start" ELSE "stop"
  /\ UNCHANGED <<vibrator, close_pc, pm_pc, pm_call, net_vars>>

\* clk_vibrator_worker: clk_vibrator_start(vibrator)
clk_vibrator_worker_start ==
  /\ worker_pc = "start"
  /\ StartStep
  /\ worker_pc' = "idle"
  /\ UNCHANGED <<work_pending, close_pc, pm_pc, pm_call, net_vars>>

\* clk_vibrator_worker: clk_vibrator_stop(vibrator)
clk_vibrator_worker_stop ==
  /\ worker_pc = "stop"
  /\ vibrator' = clk_vibrator_stop(vibrator)
  /\ worker_pc' = "idle"
  /\ UNCHANGED <<work_pending, close_pc, pm_pc, pm_call, net_vars>>

\* cancel_work_sync: the work is taken off the queue once it does not run
cancel_work_sync ==
  /\ worker_pc = "idle"
  /\ work_pending' = FALSE

\* clk_vibrator_close: cancel_work_sync(&vibrator->worker)
clk_vibrator_close ==
  /\ close_pc = "idle"
  /\ cancel_work_sync
  /\ close_pc' = "stop"
  /\ UNCHANGED <<vibrator, worker_pc, pm_pc, pm_call, net_vars>>

\* clk_vibrator_close: clk_vibrator_stop(vibrator)
clk_vibrator_close_stop ==
  /\ close_pc = "stop"
  /\ vibrator' = clk_vibrator_stop(vibrator)
  /\ close_pc' = "idle"
  /\ UNCHANGED <<work_pending, worker_pc, pm_pc, pm_call, net_vars>>

\* clk_vibrator_suspend is called: cancel_work_sync(&vibrator->worker)
clk_vibrator_suspend ==
  /\ pm_pc = "running"
  /\ cancel_work_sync
  /\ pm_call' = [running |-> vibrator.enabled]
  /\ pm_pc' = "suspend_check"
  /\ UNCHANGED <<vibrator, worker_pc, close_pc, net_vars>>

\* clk_vibrator_suspend: if (vibrator->enabled), read without the mutex;
\* return 0 when it is not set
clk_vibrator_suspend_check ==
  /\ pm_pc = "suspend_check"
  /\ pm_pc' = IF vibrator.enabled THEN "suspend_stop" ELSE "suspended"
  /\ UNCHANGED <<vibrator, work_pending, worker_pc, close_pc, pm_call,
                 net_vars>>

\* clk_vibrator_suspend: clk_vibrator_stop(vibrator); return 0
clk_vibrator_suspend_stop ==
  /\ pm_pc = "suspend_stop"
  /\ vibrator' = clk_vibrator_stop(vibrator)
  /\ pm_pc' = "suspended"
  /\ UNCHANGED <<work_pending, worker_pc, close_pc, pm_call, net_vars>>

\* clk_vibrator_resume is called: if (vibrator->enabled), read without the
\* mutex; return 0 when it is not set
clk_vibrator_resume ==
  /\ pm_pc = "suspended"
  /\ pm_pc' = IF vibrator.enabled THEN "resume_start" ELSE "running"
  /\ UNCHANGED <<vibrator, work_pending, worker_pc, close_pc, pm_call,
                 net_vars>>

\* clk_vibrator_resume: clk_vibrator_start(vibrator); return 0
clk_vibrator_resume_start ==
  /\ pm_pc = "resume_start"
  /\ StartStep
  /\ pm_pc' = "running"
  /\ UNCHANGED <<work_pending, worker_pc, close_pc, pm_call, net_vars>>

(* --------------------------- specification ------------------------------ *)

\* the counters of a queue that sent n packets without offload
\* (pio_packets and cb_packets are left out: nothing reads them)
StatsAfter(n) == [tx_packets |-> n, tso_bursts |-> 0, tso_packets |-> 0,
                  tso_fallbacks |-> 0]


\* the rings and the submitter before the first call
InitRings ==
  /\ insert_count = [q \in AllQ |-> Base(q)]
  /\ read_count = [q \in AllQ |-> Base(q)]
  /\ old_read_count = [q \in AllQ |-> Base(q)]
  /\ write_count = [q \in AllQ |-> Base(q)]
  /\ buffer = [q \in AllQ |-> [i \in 0..(txq_entries - 1) |-> CleanSlot]]
  /\ xmit_more_available = [q \in AllQ |-> FALSE]
  /\ stats = [q \in AllQ |-> StatsAfter(Base(q))]
  /\ stopped = FALSE
  /\ pc = "idle"
  /\ cur = NoCall
  /\ segs_left = 0
  /\ placed = {}
  /\ ret = NETDEV_TX_OK
  /\ skb_live = 0
  /\ low_seen = FALSE
  /\ xdp_frames = [id \in 1..MaxFrames |-> [returned |-> 0, done |-> 0]]
  /\ xdp_call = [n |-> 0, first |-> 0, sent |-> 0, flush |-> FALSE,
                 bound |-> FALSE, fail_at |-> 0, space |-> 0, cpu |-> 0,
                 null_xdpfs |-> FALSE]

\* and the CPUs that may call efx_xdp_tx_buffers: CPU 0 has an XDP queue
InitCommon ==
  /\ InitRings
  /\ xdp_tx_queues = [c \in Cpus |-> IF c = 0 THEN XdpQ ELSE NoQueue]

\* queue selection before any traffic class is set up, with n TX channels:
\* the high-priority queues have no ring yet, the others are bound
TcInit(n) ==
  /\ n_tx_channels = n
  /\ num_tc = 0
  /\ real_num_tx_queues = n
  /\ tc_to_txq = [tc \in 0..(EFX_MAX_TX_TC - 1) |->
                    [offset |-> 0, count |-> 0]]
  /\ txq_buffer = [q \in TcQueues |-> ~IsHighpri(q)]
  /\ txq_initialised = [q \in TcQueues |-> ~IsHighpri(q)]
  /\ core_txq = [q \in TcQueues |->
                   IF IsHighpri(q) THEN NoCoreTxq
                   ELSE efx_init_tx_queue_core_txq(q)]
  /\ tc_pc = "idle"
  /\ tc_i = 0
  /\ tc_call = TcCall(0, 0, FALSE, 0)
  /\ xmit_sel = [index |-> 0, csum |-> FALSE, queue |-> 0]

\* the stack hands over only packets the stop threshold leaves room for
Init ==
  /\ InitCommon
  /\ TcInit(1)
  /\ PioIdle
  /\ VibIdle
  /\ desc_limit = MaxSkbDescs
  /\ loopback_selftest \in BOOLEAN
  /\ piobuf = TRUE
  /\ faults = TRUE
  /\ xdp_tx_queue_count = 1

Next ==
  \/ efx_enqueue_skb
  \/ efx_tx_tso_fallback_segment
  \/ efx_tx_tso_fallback_return
  \/ ErrPath
  \/ MaybeStopStop
  \/ MaybeStopRead1
  \/ MaybeStopRecheck
  \/ SentQueue
  \/ efx_enqueue_skb_return
  \/ TxDone

Spec == Init /\ [][Next]_vars

\* the stack may also hand over packets that need a whole ring
InitBig ==
  /\ InitCommon
  /\ TcInit(1)
  /\ PioIdle
  /\ VibIdle
  /\ desc_limit \in {MaxSkbDescs, txq_entries}
  /\ loopback_selftest = FALSE
  /\ piobuf = FALSE
  /\ faults = TRUE
  /\ xdp_tx_queue_count = 1

SpecBig == InitBig /\ [][Next]_vars

\* XDP transmit on its own queue, with any number of XDP queues configured
InitXdp ==
  /\ InitCommon
  /\ TcInit(1)
  /\ PioIdle
  /\ VibIdle
  /\ desc_limit = MaxSkbDescs
  /\ loopback_selftest = FALSE
  /\ piobuf = FALSE
  /\ faults = TRUE
  /\ xdp_tx_queue_count \in 0..2

NextXdp ==
  \/ efx_xdp_tx_buffers
  \/ efx_xmit_done_xdp

SpecXdp == InitXdp /\ [][NextXdp]_vars

\* queue selection and traffic-class reconfiguration on idle rings
InitTc ==
  /\ InitCommon
  /\ desc_limit = MaxSkbDescs
  /\ loopback_selftest = FALSE
  /\ piobuf = FALSE
  /\ faults = TRUE
  /\ xdp_tx_queue_count = 1
  /\ \E n \in 1..MaxChannels : TcInit(n)
  /\ PioIdle
  /\ VibIdle

NextTc ==
  \/ efx_hard_start_xmit
  \/ efx_setup_tc
  \/ efx_setup_tc_provision
  \/ efx_setup_tc_real
  \/ efx_setup_tc_advertise

SpecTc == InitTc /\ [][NextTc]_vars

\* every operation that touches a ring: either the stack submits packets and
\* no CPU sends XDP frames, or CPUs send XDP frames and the stack submits
\* nothing (desc_limit 0)
InitOwn ==
  /\ InitRings
  /\ TcInit(1)
  /\ PioIdle
  /\ VibIdle
  /\ loopback_selftest = FALSE
  /\ piobuf = TRUE
  /\ faults = TRUE
  /\ \/ /\ desc_limit = MaxSkbDescs
        /\ xdp_tx_queue_count = 0
        /\ xdp_tx_queues = [c \in {} |-> NoQueue]
     \/ /\ desc_limit = 0
        /\ xdp_tx_queue_count = 1
        /\ xdp_tx_queues = [c \in Cpus |-> IF c = 0 THEN XdpQ ELSE NoQueue]

NextOwn == Next \/ NextXdp

SpecOwn == InitOwn /\ [][NextOwn]_vars

\* efx_enqueue_skb_pio on an empty queue, for every packet of PioSkbs
InitPio ==
  /\ InitCommon
  /\ TcInit(1)
  /\ desc_limit = MaxSkbDescs
  /\ loopback_selftest = FALSE
  /\ piobuf = TRUE
  /\ faults = FALSE
  /\ xdp_tx_queue_count = 1
  /\ pio_skb \in PioSkbs
  /\ pio_st = [piobuf |-> 0, buf |-> <<>>, used |-> 0, writes |-> <<>>,
               bug |-> FALSE]
  /\ pio_i = 0
  /\ pio_pc = "start"
  /\ VibIdle

NextPio ==
  \/ PioStart
  \/ PioHead
  \/ PioFrag
  \/ PioDesc

SpecPio == InitPio /\ [][NextPio]_vars

\* the clock vibrator after clk_vibrator_probe
InitVib ==
  /\ InitCommon
  /\ TcInit(1)
  /\ PioIdle
  /\ VibIdle
  /\ desc_limit = MaxSkbDescs
  /\ loopback_selftest = FALSE
  /\ piobuf = FALSE
  /\ faults = FALSE
  /\ xdp_tx_queue_count = 1

NextVib ==
  \/ clk_vibrator_play_effect
  \/ clk_vibrator_worker
  \/ clk_vibrator_worker_start
  \/ clk_vibrator_worker_stop
  \/ clk_vibrator_close
  \/ clk_vibrator_close_stop
  \/ clk_vibrator_suspend
  \/ clk_vibrator_suspend_check
  \/ clk_vibrator_suspend_stop
  \/ clk_vibrator_resume
  \/ clk_vibrator_resume_start

SpecVib == InitVib /\ [][NextVib]_vars

(* ------------------------------- claims --------------------------------- *)

\* insert_count - read_count of a queue
Fill(q) == insert_count[q] - read_count[q]

IsEntry == ~cur.active /\ cur'.active

\* ring slots of the TX queues that hold a packet
SlotRefs ==
  Cardinality({<<q, i>> \in TxQ \X (0..(txq_entries - 1)) : buffer[q][i].skb})

\* C2: no lost wakeup.  If the pair's fill level, taken with the true read
\* counters, is below txq_stop_thresh when efx_tx_maybe_stop_queue reads
\* read_count after the stop (so a completion brought it down after the cheap
\* check), the call ends with the stack queue running unless a loopback
\* self-test is on; and once a call has returned, a stopped stack queue
\* always has a pushed descriptor outstanding whose completion can wake it.
C2_NoLostWakeup ==
  /\ (pc \in {"sent", "ret"} /\ low_seen /\ ~loopback_selftest => ~stopped)
  /\ (stopped /\ pc \in {"idle", "fallback"}
        => \E q \in TxQ : write_count[q] > read_count[q])

\* the cheap check saw the threshold reached, a completion then brought the
\* fill level below it, and the call is returning with the queue running
C2_Witness ==
  /\ pc = "ret"
  /\ low_seen
  /\ ~loopback_selftest
  /\ ~stopped
  /\ old_read_count[cur.txq] > Base(cur.txq)

\* C3: when a placement stage of efx_enqueue_skb fails, the call puts
\* insert_count back to the value it recorded at entry, and no slot it
\* claimed keeps a mapping to undo or a reference to the packet.
C3_Unwind ==
  [][/\ (IsEntry => cur'.old_insert_count = insert_count[cur'.txq])
     /\ (pc = "err" /\ pc' = "ret" =>
           /\ insert_count'[cur.txq] = cur.old_insert_count
           /\ \A j \in 0..(insert_count[cur.txq] - cur.old_insert_count - 1) :
                LET b == buffer'[cur.txq][InsertIndex(cur.old_insert_count + j)]
                IN b.unmap_len = 0 /\ ~b.skb)]_vars

\* the mapping of a fragment failed after the call had claimed a descriptor,
\* and the call has unwound
C3_Witness ==
  /\ pc = "ret"
  /\ "unwind" \in placed
  /\ cur.unwound >= 1
  /\ cur.skb.frags >= 1
  /\ insert_count[cur.txq] = cur.old_insert_count
  /\ buffer[cur.txq][InsertIndex(cur.old_insert_count)] = CleanSlot

\* C4: a partly described packet is never pushed.  What is pushed ends at a
\* packet's last descriptor and never passes insert_count; while a call is
\* between its entry and its push, nothing the call inserted is pushed; so on
\* failure the unwind comes before any push.
C4_NoPartialPush ==
  /\ \A q \in TxQ :
       /\ read_count[q] <= write_count[q]
       /\ write_count[q] <= insert_count[q]
       /\ (write_count[q] > read_count[q]
             => "SKB" \in buffer[q][InsertIndex(write_count[q] - 1)].flags)
  /\ (cur.active /\ pc # "ret"
        => write_count[cur.txq] <= cur.old_insert_count)

\* a failed call has unwound what it claimed and then pushed the packets that
\* earlier calls had left unpushed
C4_Witness ==
  /\ pc = "ret"
  /\ "unwind" \in placed
  /\ cur.unwound >= 1
  /\ ~cur.xmit_more
  /\ cur.pushed >= 1
  /\ \A q \in TxQ : write_count[q] = insert_count[q]

\* C5: efx_enqueue_skb returns NETDEV_TX_OK on every path; every packet alive
\* is owned by exactly one holder: a ring slot, the failing call that is
\* about to release it, or the segment list of efx_tx_tso_fallback.
C5_OkAndOwnership ==
  /\ ret = NETDEV_TX_OK
  /\ skb_live = SlotRefs + segs_left + (IF pc = "err" THEN 1 ELSE 0)

\* a failed call has released its packet and returns NETDEV_TX_OK while an
\* earlier packet is still owned by its slot
C5_Witness ==
  /\ pc = "ret"
  /\ "unwind" \in placed
  /\ ret = NETDEV_TX_OK
  /\ skb_live = 1
  /\ SlotRefs = 1

\* the pair's fill level that the counters in orc give
C6_FillLevel(orc, q) ==
  LET q2 == efx_tx_queue_partner(q)
  IN IF insert_count[q] - orc[q] >= insert_count[q2] - orc[q2]
       THEN insert_count[q] - orc[q]
       ELSE insert_count[q2] - orc[q2]

\* C6: efx_tx_maybe_stop_queue reads both read counters after the stop; if
\* they give a fill level below txq_stop_thresh, the call leaves the stack
\* queue running, unless loopback_selftest is set: then the call does not
\* restart the queue it stopped.
C6_RestartAfterRecheck ==
  [][/\ (pc = "read1" /\ pc' = "recheck"
           => old_read_count'[cur.txq] = read_count[cur.txq])
     /\ (pc = "recheck" /\ pc' = "sent" =>
           /\ old_read_count'[efx_tx_queue_partner(cur.txq)]
                = read_count[efx_tx_queue_partner(cur.txq)]
           /\ (C6_FillLevel(old_read_count', cur.txq) < txq_stop_thresh
                 => IF loopback_selftest THEN stopped' = stopped
                                         ELSE ~stopped'))]_vars

\* under a self-test the recheck found the fill level below the threshold
\* and left the queue stopped
C6_Witness ==
  /\ pc = "sent"
  /\ loopback_selftest
  /\ low_seen
  /\ stopped
  /\ C6_FillLevel(old_read_count, cur.txq) < txq_stop_thresh

\* the placement branch a set of stages belongs to
C7_Strategy(p) ==
  IF "tso" \in p THEN "tso"
  ELSE IF p = {"pio"} THEN "pio"
  ELSE IF p = {"copy"} THEN "copy"
  ELSE IF p = {"map"} THEN "map"
  ELSE "none"

\* both queues of the pair are empty and the queue has a PIO buffer
C7_PioReady(q) ==
  /\ piobuf
  /\ insert_count[q] = read_count[q]
  /\ insert_count[efx_tx_queue_partner(q)]
       = read_count[efx_tx_queue_partner(q)]

\* C7: efx_enqueue_skb places every packet by exactly one branch: a packet
\* of more than one segment by the offload branch; otherwise a packet of
\* length <= efx_piobuf_size, fragmented or not, by PIO (one descriptor) when
\* xmit_more is false and the pair is empty with PIO available; otherwise a
\* fragmented packet of length <= EFX_TX_CB_SIZE by the copy branch;
\* otherwise by generic DMA mapping.
C7_PlacementSelection ==
  [][IsEntry =>
       LET q == cur'.txq
           skb == cur'.skb
           expected ==
             IF skb.gso_segs > 1 THEN "tso"
             ELSE IF skb.len <= efx_piobuf_size /\ ~cur'.xmit_more
                     /\ C7_PioReady(q) THEN "pio"
             ELSE IF skb.frags > 0 /\ skb.len <= EFX_TX_CB_SIZE THEN "copy"
             ELSE "map"
       IN /\ placed' \in {{"tso"}, {"tso", "map"}, {"pio"}, {"copy"}, {"map"}}
          /\ C7_Strategy(placed') = expected
          /\ (expected = "pio"
                => insert_count'[q] = insert_count[q] + 1)]_vars

\* C7 as stated, for packets without offload: PIO for unfragmented packets
\* only, the copy branch for every short fragmented packet
C7_AsStated ==
  [][IsEntry /\ cur'.skb.gso_segs <= 1 =>
       LET q == cur'.txq
           skb == cur'.skb
           expected ==
             IF skb.frags = 0 /\ skb.len <= efx_piobuf_size
                  /\ ~cur'.xmit_more /\ C7_PioReady(q) THEN "pio"
             ELSE IF skb.frags > 0 /\ skb.len <= EFX_TX_CB_SIZE THEN "copy"
             ELSE "map"
       IN C7_Strategy(placed') = expected]_vars

\* a short fragmented packet went out by PIO
C7_Witness ==
  /\ pc = "ret"
  /\ placed = {"pio"}
  /\ cur.skb.frags > 0
  /\ cur.skb.len <= EFX_TX_CB_SIZE
  /\ insert_count[cur.txq] = cur.old_insert_count + 1

\* C8: when handle_tso returns -EINVAL for a packet of N > 1 segments and
\* the software segmentation succeeds, the original is released and N
\* segments are alive; each is handed to efx_enqueue_skb on the same queue
\* as a packet without offload (no offload branch, no further fallback);
\* tso_fallbacks rises by exactly 1, when efx_tx_tso_fallback has returned
\* (or when the segmentation failed), and by nothing during the segments.
C8_SoftwareFallback ==
  [][/\ (IsEntry /\ ~cur'.nested /\ pc' = "fallback" =>
           /\ cur'.skb.gso_segs > 1
           /\ segs_left' = cur'.skb.gso_segs
           /\ skb_live' = skb_live + cur'.skb.gso_segs
           /\ insert_count' = insert_count
           /\ stats' = stats)
     /\ (IsEntry /\ cur'.nested =>
           /\ pc = "fallback"
           /\ cur'.txq = cur.txq
           /\ segs_left' = segs_left - 1
           /\ cur'.segments = 0
           /\ "tso" \notin placed'
           /\ pc' # "fallback")
     /\ (pc = "fallback" /\ pc' = "ret" =>
           /\ segs_left = 0
           /\ stats'[cur.txq].tso_fallbacks
                = stats[cur.txq].tso_fallbacks + 1)
     /\ \A q \in TxQ :
          stats'[q].tso_fallbacks # stats[q].tso_fallbacks =>
            /\ stats'[q].tso_fallbacks = stats[q].tso_fallbacks + 1
            /\ \/ pc = "fallback" /\ pc' = "ret" /\ q = cur.txq
               \/ IsEntry /\ pc' = "err" /\ placed' = {"tso"} /\ q = cur'.txq]_vars

\* a fallback has returned: its segments are in the ring, one fallback counted
C8_Witness ==
  /\ pc = "ret"
  /\ placed = {"fallback"}
  /\ stats[cur.txq].tso_fallbacks = 1
  /\ SlotRefs = NSegs
  /\ skb_live = NSegs
  /\ stats[cur.txq].tx_packets = Base(cur.txq) + NSegs

\* C9: efx_xdp_tx_buffers with n >= 1 frames on a bound queue queues the
\* longest prefix of the batch that fits in the space
\* txq_entries - (insert_count - read_count) and comes before the first
\* mapping failure, one descriptor per frame in order; it touches no other
\* slot (nothing is unwound); it returns the length of the prefix, or -EIO
\* if the prefix is empty.
C9_XdpPrefix ==
  [][NextFrame' > NextFrame /\ xdp_call'.bound =>
       LET q == XdpQ
           n == xdp_call'.n
           space == txq_entries - (insert_count[q] - read_count[q])
           prefix == Min(n, Min(space, xdp_call'.fail_at))
           new == {InsertIndex(insert_count[q] + k) : k \in 0..(prefix - 1)}
       IN /\ insert_count'[q] = insert_count[q] + prefix
          /\ \A k \in 0..(prefix - 1) :
               buffer'[q][InsertIndex(insert_count[q] + k)].xdpf
                 = xdp_call'.first + k + 1
          /\ \A i \in (0..(txq_entries - 1)) \ new :
               buffer'[q][i] = buffer[q][i]
          /\ ret' = IF prefix = 0 THEN -EIO ELSE prefix]_vars

\* a batch of MaxBatch frames met space for MaxBatch - 2 and no mapping
\* failure: the call returned MaxBatch - 2
C9_Witness ==
  /\ xdp_call.bound
  /\ xdp_call.n = MaxBatch
  /\ xdp_call.space = MaxBatch - 2
  /\ xdp_call.fail_at = xdp_call.n
  /\ ret = MaxBatch - 2

\* ring slots of the XDP queue that refer to frame id
XdpRefs(id) ==
  Cardinality({i \in 0..(txq_entries - 1) : buffer[XdpQ][i].xdpf = id})

\* holders of frame id that the driver knows of: ring slots, returns to the
\* origin by efx_xdp_return_frames, releases at completion
XdpOwners(id) == XdpRefs(id) + xdp_frames[id].returned + xdp_frames[id].done

\* the frames of the last call, if it had a bound queue
LastBatch ==
  IF xdp_call.bound
    THEN {id \in 1..MaxFrames :
            id > xdp_call.first /\ id <= xdp_call.first + xdp_call.n}
    ELSE {}

\* C10: no frame ever has two holders.  After a call on a bound queue that
\* queued at least one frame, every frame of the batch is either in exactly
\* one ring slot (until its completion) or was returned to its origin exactly
\* once, the returned ones being those not queued.  After a call that queued
\* none (it returns -EIO), the call has returned no frame: all stay with the
\* caller.
C10_FrameOwnership ==
  /\ \A id \in 1..MaxFrames : XdpOwners(id) <= 1
  /\ \A id \in LastBatch :
       IF xdp_call.sent > 0
         THEN /\ XdpOwners(id) = 1
              /\ (xdp_frames[id].returned = 1
                    <=> id > xdp_call.first + xdp_call.sent)
         ELSE /\ XdpOwners(id) = 0
              /\ ret = -EIO

\* C10 as stated: every frame of the batch that was not queued is returned
\* exactly once by the call
C10_AsStated ==
  \A id \in LastBatch :
    /\ XdpOwners(id) = 1
    /\ (xdp_frames[id].returned = 1 <=> id > xdp_call.first + xdp_call.sent)

\* part of a batch was queued and is in the ring, the rest was returned once
C10_Witness ==
  /\ xdp_call.bound
  /\ xdp_call.sent > 0
  /\ xdp_call.sent < xdp_call.n
  /\ \A id \in LastBatch :
       IF id > xdp_call.first + xdp_call.sent
         THEN xdp_frames[id].returned = 1 /\ XdpRefs(id) = 0
         ELSE xdp_frames[id].returned = 0 /\ XdpRefs(id) = 1

\* a step of SpecXdp that is a call of efx_xdp_tx_buffers: the submitter is
\* idle before and after, and the step is not a completion (every completion
\* advances read_count); xdp_call' holds the arguments of the call
IsXdpCall == pc = "idle" /\ pc' = "idle" /\ read_count' = read_count

\* what C11 calls a validation error, for the arguments c of a call
C11_Precondition(c) ==
  \/ xdp_tx_queue_count = 0
  \/ c.cpu >= xdp_tx_queue_count
  \/ xdp_tx_queues[c.cpu] = NoQueue
  \/ c.null_xdpfs

\* C11: a call of efx_xdp_tx_buffers with no XDP TX queue bound to the CPU
\* (xdp_tx_queue_count is 0, the CPU id is >= xdp_tx_queue_count, or the
\* bound entry is null) or with n > 0 and a null frame array returns -EINVAL
\* and leaves insert_count, every descriptor slot, the packet counter and
\* the doorbell state of every queue unchanged, and returns no frame.
C11_ValidationMutatesNothing ==
  [][IsXdpCall /\ C11_Precondition(xdp_call') =>
       /\ ret' = -EINVAL
       /\ UNCHANGED <<insert_count, buffer, stats, write_count,
                      xmit_more_available, xdp_frames>>]_vars

\* a call with frames to send and a null frame array on a CPU that has a
\* queue returned -EINVAL while that queue held descriptors not yet pushed
C11_Witness ==
  /\ ret = -EINVAL
  /\ ~xdp_call.bound
  /\ xdp_call.null_xdpfs
  /\ xdp_call.cpu < xdp_tx_queue_count
  /\ xdp_tx_queues[xdp_call.cpu] = XdpQ
  /\ insert_count[XdpQ] > write_count[XdpQ]
  /\ write_count[XdpQ] > read_count[XdpQ]

\* C12: efx_xdp_tx_buffers pushes the queue to the device if and only if
\* flush was requested and at least one frame of the batch was queued: then
\* every descriptor of the queue is pushed; with flush false, or with no
\* frame queued, the call leaves the doorbell state of every queue as it was.
C12_FlushIff ==
  [][IsXdpCall =>
       IF xdp_call'.flush /\ xdp_call'.sent > 0
         THEN /\ write_count'[XdpQ] = insert_count'[XdpQ]
              /\ write_count'[XdpQ] > write_count[XdpQ]
              /\ ~xmit_more_available'[XdpQ]
         ELSE UNCHANGED <<write_count, xmit_more_available>>]_vars

\* a call with flush set queued no frame of its batch while descriptors of
\* an earlier call without flush were waiting: they are still not pushed
C12_Witness ==
  /\ xdp_call.bound
  /\ xdp_call.flush
  /\ xdp_call.n > 0
  /\ xdp_call.sent = 0
  /\ ret = -EIO
  /\ insert_count[XdpQ] > write_count[XdpQ]

\* the high-priority TX queues
HighpriQueues == {q \in TcQueues : IsHighpri(q)}

\* C13: for every TX queue q whose channel index q / EFX_TXQ_TYPES is below
\* n_tx_channels, the stack queue that efx_init_tx_queue_core_txq binds q to
\* is mapped by the lookup of efx_hard_start_xmit back to a queue bound to
\* that same stack queue, and to q itself when the checksum-offload request
\* matches q's subtype; and every packet is enqueued on a driver queue whose
\* core_txq is the stack queue the packet was mapped to.
C13_QueueLookupRoundTrip ==
  /\ \A q \in TcQueues :
       q \div EFX_TXQ_TYPES < n_tx_channels =>
         \A csum \in BOOLEAN :
           LET stack == efx_init_tx_queue_core_txq(q)
               found == XmitQueue(stack, csum)
           IN /\ found \in TcQueues
              /\ efx_init_tx_queue_core_txq(found) = stack
              /\ (csum <=> IsOffload(q)) => found = q
  /\ xmit_sel.queue \in TcQueues
  /\ core_txq[xmit_sel.queue] = xmit_sel.index

\* a packet with checksum offload that the stack mapped to its last
\* high-priority queue went to the high-priority offload queue of the last
\* TX channel, which is bound to that stack queue
C13_Witness ==
  /\ n_tx_channels = MaxChannels
  /\ xmit_sel.index = 2 * n_tx_channels - 1
  /\ xmit_sel.csum
  /\ xmit_sel.queue = (n_tx_channels - 1) * EFX_TXQ_TYPES
                        + EFX_TXQ_TYPE_HIGHPRI + EFX_TXQ_TYPE_OFFLOAD
  /\ core_txq[xmit_sel.queue] = xmit_sel.index

\* the queue has a ring, is initialised and is bound to its stack queue
Provisioned(q) ==
  /\ txq_buffer[q]
  /\ txq_initialised[q]
  /\ core_txq[q] = q \div EFX_TXQ_TYPES + n_tx_channels

\* C14: net_dev->num_tc is raised only in a state in which every
\* high-priority TX queue has a ring, is initialised and is bound to its
\* stack queue and the real number of TX queues was set for the new count;
\* a call that was to raise the count and returns an error leaves num_tc at
\* its old value.
C14_RaiseAfterProvisioning ==
  [][/\ num_tc' > num_tc =>
          /\ \A q \in HighpriQueues : Provisioned(q)
          /\ real_num_tx_queues = num_tc' * n_tx_channels
          /\ num_tc' = tc_call.num_tc
     /\ (tc_pc' = "idle" /\ tc_call'.rc # 0
           /\ tc_call'.num_tc > tc_call'.old)
          => num_tc' = tc_call'.old]_vars

\* a call raised the class count to EFX_MAX_TX_TC with success
C14_Witness ==
  /\ tc_pc = "idle"
  /\ tc_call.rc = 0
  /\ tc_call.old < EFX_MAX_TX_TC
  /\ tc_call.num_tc = EFX_MAX_TX_TC
  /\ num_tc = EFX_MAX_TX_TC
  /\ real_num_tx_queues = EFX_MAX_TX_TC * n_tx_channels
  /\ \A q \in HighpriQueues : Provisioned(q)

\* a step of a call of efx_setup_tc that lowers the class count
C15_Lowering ==
  /\ tc_pc # "idle" \/ tc_pc' # "idle"
  /\ tc_call'.num_tc < tc_call'.old

\* C15: a call of efx_setup_tc that lowers the class count frees,
\* re-initialises and re-binds no TX queue and leaves the queue ranges of the
\* classes as they were; it lowers num_tc, then the real
\* number of stack TX queues, so the real number of queues is never below
\* what the advertised classes need.
C15_LowerOnlyAdvertised ==
  [][/\ C15_Lowering =>
          /\ UNCHANGED <<txq_buffer, txq_initialised, core_txq, tc_to_txq>>
          /\ real_num_tx_queues' # real_num_tx_queues =>
                /\ num_tc = tc_call.num_tc
                /\ real_num_tx_queues' = Max(num_tc, 1) * n_tx_channels
     /\ real_num_tx_queues' >= Max(num_tc', 1) * n_tx_channels]_vars

\* a call lowered the class count from EFX_MAX_TX_TC with success: the
\* high-priority queues all still have their ring and their binding
C15_Witness ==
  /\ tc_pc = "idle"
  /\ tc_call.rc = 0
  /\ tc_call.old = EFX_MAX_TX_TC
  /\ tc_call.num_tc < tc_call.old
  /\ num_tc = tc_call.num_tc
  /\ real_num_tx_queues = Max(num_tc, 1) * n_tx_channels
  /\ \A q \in HighpriQueues : Provisioned(q)

\* the larger of the two fill levels of the pair of q, for the insert
\* counters ic and the read counters rc
C16_Fill(ic, rc, q) ==
  LET a == ic[q] - rc[q]
      b == ic[efx_tx_queue_partner(q)] - rc[efx_tx_queue_partner(q)]
  IN IF a >= b THEN a ELSE b

\* C16: efx_tx_maybe_stop_queue goes on to stop the stack queue exactly when
\* the larger of the two insert_count - old_read_count values of the pair
\* is at or above txq_stop_thresh; and whenever it has returned while the
\* larger of the two insert_count - read_count values is at or above
\* txq_stop_thresh, the stack queue is stopped, whatever the completion
\* path did in between.
C16_StopDirection ==
  [][/\ (pc \in {"idle", "fallback"} /\ pc' \in {"stop", "sent"}) =>
          (pc' = "stop" <=>
             C16_Fill(insert_count', old_read_count', cur'.txq)
               >= txq_stop_thresh)
     /\ (pc' = "sent"
           /\ C16_Fill(insert_count', read_count', cur'.txq) >= txq_stop_thresh)
          => stopped']_vars

\* with no self-test running, efx_tx_maybe_stop_queue has returned with the
\* true fill level of the queue at the threshold and the stack queue stopped
C16_Witness ==
  /\ pc = "sent"
  /\ ~loopback_selftest
  /\ ~cur.nested
  /\ stopped
  /\ insert_count[cur.txq] - read_count[cur.txq] >= txq_stop_thresh
  /\ read_count[cur.txq] > old_read_count[cur.txq]

\* C17: old_read_count of a queue is never ahead of its read_count, so a
\* fill level below txq_stop_thresh on old_read_count implies one on
\* read_count; and the fill level that efx_tx_maybe_stop_queue has computed
\* last, on the refreshed old_read_count, is below txq_entries.
C17_PessimisticSnapshot ==
  /\ \A q \in AllQ : old_read_count[q] <= read_count[q]
  /\ \A q \in TxQ :
       C16_Fill(insert_count, old_read_count, q) < txq_stop_thresh
         => C16_Fill(insert_count, read_count, q) < txq_stop_thresh
  /\ pc = "sent" =>
       C16_Fill(insert_count, old_read_count, cur.txq) < txq_entries

\* the recheck found the largest fill level it can find, txq_entries - 1,
\* and a completion has moved read_count past the snapshot since
C17_Witness ==
  /\ pc = "sent"
  /\ stopped
  /\ C16_Fill(insert_count, old_read_count, cur.txq) = txq_entries - 1
  /\ \E q \in TxQ : old_read_count[q] < read_count[q]

\* C18: when a call of efx_enqueue_skb returns from a submission with
\* xmit_more false, on success or on failure, or returns with the stack
\* queue stopped, every descriptor inserted on its queue and on the partner
\* queue is pushed and neither queue has xmit_more_available set: what
\* earlier submissions with xmit_more deferred on the partner went out in
\* this call.
C18_NothingLeftUnpushed ==
  [][(pc' = "ret" /\ (~cur'.xmit_more \/ stopped')) =>
       \A q \in TxQ :
         /\ write_count'[q] = insert_count'[q]
         /\ ~xmit_more_available'[q]]_vars

\* a submission without xmit_more on queue 0, the first ever on that queue,
\* failed and was unwound; the call pushed descriptors all the same: those
\* that a submission with xmit_more had left on the partner queue
C18_Witness ==
  /\ pc = "ret"
  /\ cur.txq = 0
  /\ ~cur.xmit_more
  /\ "unwind" \in placed
  /\ insert_count[0] = Base0
  /\ cur.pushed >= 1
  /\ write_count[1] = insert_count[1]

\* what the submission side writes: a step of efx_enqueue_skb, of
\* efx_tx_maybe_stop_queue or of efx_xdp_tx_buffers changes some of it
SubmissionState ==
  <<pc, cur, placed, segs_left, ret, insert_count, old_read_count,
    write_count, xmit_more_available, stats, xdp_call>>

\* C19: read_count of a queue changes only in steps of the completion path:
\* no step of efx_enqueue_skb with its placement paths, of
\* efx_tx_maybe_stop_queue or of efx_xdp_tx_buffers changes it; and wherever
\* the submitter stands, the completion of a queue with pushed descriptors
\* outstanding can run.
C19_OnlyCompletionWritesReadCount ==
  [][/\ read_count' # read_count => UNCHANGED SubmissionState
     /\ \A q \in TxQ :
          write_count[q] > read_count[q] => ENABLED efx_xmit_done(q)
     /\ write_count[XdpQ] > read_count[XdpQ] => ENABLED efx_xmit_done_xdp]_vars

\* efx_tx_maybe_stop_queue has read read_count of its queue and has not yet
\* returned, and a completion has moved that read_count on since
C19_Witness ==
  /\ pc = "recheck"
  /\ read_count[cur.txq] > old_read_count[cur.txq]
  /\ stopped

RECURSIVE PioRegion(_)
\* the PIO region after the first k writes: the function from offsets to
\* bytes, later writes over earlier ones
PioRegion(k) ==
  IF k = 0 THEN [o \in {} |-> 0]
  ELSE LET w == pio_st.writes[k]
           before == PioRegion(k - 1)
           here == (w.at)..(w.at + Len(w.data) - 1)
       IN [o \in (DOMAIN before) \cup here |->
             IF o \in here THEN w.data[o - w.at + 1] ELSE before[o]]

\* C20: in the copy of a packet to the PIO buffer, for every split of the
\* packet into a head and fragments, every write to the PIO region is a
\* whole number of blocks of L1_CACHE_BYTES, the writes are contiguous and
\* in order from offset 0, the copy buffer holds less than a block between
\* calls, and no BUG_ON fires; once the copy buffer is flushed, the first
\* skb->len bytes of the region are the bytes of the packet in order, and
\* the call appends exactly one descriptor.
C20_PioCopy ==
  LET w == pio_st.writes
      n == Len(w)
  IN /\ \A k \in 1..n :
          /\ Len(w[k].data) > 0
          /\ Len(w[k].data) % L1_CACHE_BYTES = 0
          /\ w[k].at = IF k = 1 THEN 0 ELSE w[k - 1].at + Len(w[k - 1].data)
     /\ pio_st.used < L1_CACHE_BYTES
     /\ ~pio_st.bug
     /\ pio_pc \in {"desc", "done"} =>
          LET region == PioRegion(n)
          IN /\ DOMAIN region = 0..(AlignUp(SkbLen(pio_skb)) - 1)
             /\ \A k \in 1..SkbLen(pio_skb) : region[k - 1] = k
     /\ insert_count[0] = Base0 + (IF pio_pc = "done" THEN 1 ELSE 0)
     /\ pio_pc = "done" =>
          buffer[0][InsertIndex(Base0)].flags = {"SKB", "OPTION"}

\* a packet whose head leaves a remainder in the copy buffer, whose first
\* fragment is too short to fill the buffer and whose second fragment fills
\* it and leaves a remainder again was copied: four writes of one block,
\* the last one padded
C20_Witness ==
  /\ pio_pc = "done"
  /\ pio_skb.head = L1_CACHE_BYTES + 1
  /\ pio_skb.frags = <<1, 2 * L1_CACHE_BYTES + 1>>
  /\ Len(pio_st.writes) = 4
  /\ pio_st.used # 0
  /\ insert_count[0] = Base0 + 1

\* C21: the only step of efx_enqueue_skb that moves tso_bursts, tso_packets
\* or tx_packets of a queue is the end of a successful call on that queue,
\* which a call reaches at most once (from there it only returns, and a
\* call on its error path only returns too).  There a packet of N > 1
\* segments that the offload accepted raises tso_bursts by 1, tso_packets
\* by N and tx_packets by N, and a packet without offload raises tx_packets
\* by 1 and leaves tso_bursts and tso_packets alone; a failed submission
\* changes none of the three.
C21_OffloadCounters ==
  [][/\ \A q \in TxQ :
          LET bursts == stats'[q].tso_bursts - stats[q].tso_bursts
              tso == stats'[q].tso_packets - stats[q].tso_packets
              tx == stats'[q].tx_packets - stats[q].tx_packets
              success == pc = "sent" /\ pc' = "ret" /\ q = cur.txq
              N == cur.skb.gso_segs
          IN /\ success /\ N > 1 =>
                  "tso" \in placed /\ bursts = 1 /\ tso = N /\ tx = N
             /\ success /\ N <= 1 =>
                  "tso" \notin placed /\ bursts = 0 /\ tso = 0 /\ tx = 1
             /\ ~success => bursts = 0 /\ tso = 0 /\ tx = 0
     /\ pc = "sent" => pc' \in {"sent", "ret"}
     /\ pc = "err" => pc' \in {"err", "ret"} /\ ret' = NETDEV_TX_OK
     /\ pc = "ret" => pc' \in {"ret", "idle", "fallback"}]_vars

\* an offload packet of NSegs segments was accepted and counted, after a
\* packet without offload on the same queue was counted, and a call failed
C21_Witness ==
  /\ pc = "ret"
  /\ placed = {"unwind", "map"}
  /\ \E q \in TxQ :
       /\ stats[q].tso_bursts = 1
       /\ stats[q].tso_packets = NSegs
       /\ stats[q].tx_packets = Base(q) + NSegs + 1

\* C22: whatever play_effect, the worker, close, suspend and resume have
\* done, and whichever of clk_set_rate, clk_prepare_enable and
\* regulator_enable failed, the enabled flag is set exactly when the clock is
\* enabled, the regulator is enabled and the enable GPIO is high (when the
\* flag is clear none of the three is on), and neither the regulator nor the
\* clock has been disabled more often than it was enabled.
C22_OnOffConsistent ==
  /\ vibrator.enabled <=> /\ vibrator.clk_enable > 0
                          /\ vibrator.vcc > 0
                          /\ vibrator.enable_gpio = 1
  /\ ~vibrator.enabled => /\ vibrator.clk_enable = 0
                          /\ vibrator.vcc = 0
                          /\ vibrator.enable_gpio = 0
  /\ vibrator.clk_enable >= 0
  /\ vibrator.vcc >= 0

\* the vibrator is off and nobody is in a call, after it ran, was suspended
\* while running, and clk_vibrator_start was entered MaxPrepare times with
\* the clock coming on
C22_Witness ==
  /\ ~vibrator.enabled
  /\ vibrator.clk_prepare = MaxPrepare
  /\ vibrator.magnitude # 0
  /\ pm_call.running
  /\ pm_pc = "running"
  /\ close_pc = "idle"
  /\ worker_pc = "idle"
  /\ ~work_pending

\* C23: a vibrator that is running when clk_vibrator_suspend is called is
\* off when suspend returns and running again when the following
\* clk_vibrator_resume returns; one that was not running when suspend was
\* called is not switched on by resume.
C23_SuspendResume ==
  [][/\ (pm_pc # "suspended" /\ pm_pc' = "suspended" =>
           ~vibrator'.enabled)
     /\ (pm_pc # "running" /\ pm_pc' = "running" =>
           /\ pm_call.running => vibrator'.enabled
           /\ ~pm_call.running /\ ~vibrator.enabled => ~vibrator'.enabled)]_vars
====
